---- MODULE Spec2Model ----
(***************************************************************************)
(* Trip planner API server (PostgreSQL/Prisma generation, with the legacy  *)
(* MSSQL variant where the two differ): trip creation with join-code       *)
(* retry, membership, posts, comments, votes and challenges, modelled as   *)
(* request handlers that interleave at every awaited database call.        *)
(***************************************************************************)
EXTENDS Integers, FiniteSets, Sequences, TLC

VARIABLES
    users,        \* app.users: set of user rows
    trips,        \* app.trips: set of committed trip rows
    tripMembers,  \* app.trip_members: set of committed membership rows
    tripDays,     \* app.trip_days: set of committed day rows
    call,         \* POST /api/trips requests in flight, one record per slot
    feedPosts,    \* app.feed_posts
    feedComments, \* app.feed_comments
    postVotes,    \* app.post_votes
    postChallenges, \* app.feed_post_challenges
    crawlLocations, \* app.feed_post_crawl_locations
    crawlChallenges, \* app.feed_post_crawl_location_challenges
    postImages,    \* app.feed_post_images
    files,         \* the files in the uploads directory
    req,          \* feed requests in flight, one record per slot
    backend       \* which server runs: "prisma" (PostgreSQL) or "mssql"

tripDb == <<trips, tripMembers, tripDays>>
crawlDb == <<crawlLocations, crawlChallenges>>
feedDb == <<feedPosts, feedComments, postVotes, postChallenges, crawlDb, postImages>>
feedVars == <<feedDb, files, req, backend>>
vars == <<users, trips, tripMembers, tripDays, call,
          feedPosts, feedComments, postVotes, postChallenges,
          crawlLocations, crawlChallenges, postImages, files, req, backend>>

----------------------------------------------------------------------------
(* Bounds of the model *)

NumCodes == 2     \* size of the join-code space the generator draws from
MaxTrips == 2     \* trip rows (and fresh trip ids) the model allows

(* Program constants *)

MaxJoinAttempts == 10     \* for (let attempt = 0; attempt < 10; ...)
LastRetryAttempt == 9     \* ... && attempt < 9
MaxDayCount == 60         \* normalizeDayCount upper limit

Users == {"u1", "u2"}
JoinCodes == 1..NumCodes
TripIds == 1..MaxTrips
Calls == {1, 2}    \* slots for POST /api/trips requests in flight together

Null == <<>>
Some(x) == <<x>>

----------------------------------------------------------------------------
(* Strings as the identity resolver treats them: the text without its
   surrounding blanks (base), whether blanks surround it (pad: one on each
   side), and the length with them. *)

DisplayNameCap == 120     \* trimmed.slice(0, 120)
EmailCap == 255           \* trimmed.length > 255

Str(base, pad, len) == [base |-> base, pad |-> pad, len |-> len]

EmptyStr == Str("", FALSE, 0)

Traveler == Str("Traveler", FALSE, 8)

toTrimmedString(v) == IF v.pad THEN Str(v.base, FALSE, v.len - 2) ELSE v

\* String.prototype.slice(0, n) of a trimmed string.
Slice(v, n) == IF v.len > n THEN [v EXCEPT !.len = n] ELSE v

\* String.prototype.toLowerCase on the texts the model sends.
ToLowerCase(v) == IF v.base = "E1@X.IO" THEN [v EXCEPT !.base = "e1@x.io"] ELSE v

normalizeDisplayName(v) ==
    IF toTrimmedString(v).len = 0 THEN Traveler
    ELSE Slice(toTrimmedString(v), DisplayNameCap)

\* /^[^\s@]+@[^\s@]+\.[^\s@]+$/ on the texts the model sends.
isEmailLike(v) ==
    /\ toTrimmedString(v).len > 0
    /\ toTrimmedString(v).base \in {"ann@x.io", "e1@x.io", "E1@X.IO"}

normalizeEditableDisplayName(v) ==
    IF toTrimmedString(v).len = 0 \/ isEmailLike(toTrimmedString(v))
    THEN EmptyStr
    ELSE normalizeDisplayName(toTrimmedString(v))

NormalizeEmailThrows(v) == ToLowerCase(toTrimmedString(v)).len > EmailCap

\* normalizeEmail of a text that is not too long: null for an empty one.
normalizeEmail(v) ==
    IF toTrimmedString(v).len = 0 THEN Null
    ELSE Some(ToLowerCase(toTrimmedString(v)))

NormalizeAuthSubThrows(sub) == sub = ""

\* uuidFromString(`auth0:${authSub}`): the user id derived from a subject.
uuidFromString(sub) ==
    CASE sub = "s1" -> "u1"
      [] sub = "s2" -> "u2"

UserRow(userId, displayName, email) ==
    [userId |-> userId, displayName |-> displayName, email |-> email]

\* A user who has signed in with neither a name nor an email.
SignedIn(userId) == UserRow(userId, Traveler, Null)

RowNeverExists(rows, userId) == FALSE

\* upsertUser: user.findUnique({ where: { userId } })
RowExists(rows, userId) == \E u \in rows : u.userId = userId

\* resolveAuthenticatedUser of a caller whose name and email the token
\* and the body leave as they are stored: the row is created if missing.
TouchUser(rows, userId) ==
    IF RowExists(rows, userId) THEN rows ELSE rows \cup {SignedIn(userId)}

----------------------------------------------------------------------------
(* Calendar arithmetic of the JavaScript Date object (UTC). *)

IsLeapYear(y) == (y % 4 = 0 /\ y % 100 # 0) \/ y % 400 = 0

DaysInMonth(y, m) ==
    IF m = 2 THEN (IF IsLeapYear(y) THEN 29 ELSE 28)
    ELSE IF m \in {4, 6, 9, 11} THEN 30 ELSE 31

\* Days from 1970-01-01 to the first day of year y (proleptic Gregorian).
DayFromYear(y) ==
    365 * (y - 1970) + ((y - 1969) \div 4) - ((y - 1901) \div 100)
        + ((y - 1601) \div 400)

RECURSIVE DaysBeforeMonth(_, _)
DaysBeforeMonth(y, m) ==
    IF m <= 1 THEN 0 ELSE DaysBeforeMonth(y, m - 1) + DaysInMonth(y, m - 1)

\* ECMAScript MakeDay(year, month0, date): month0 is zero-based and may
\* exceed 11, date may exceed the month's length; both carry over.
MakeDay(year, month0, date) ==
    LET ym == year + (month0 \div 12)
        mn == (month0 % 12) + 1
    IN  DayFromYear(ym) + DaysBeforeMonth(ym, mn) + date - 1

\* Date.UTC(year, month0, date) in whole days since the epoch: a year in
\* 0..99 is taken as 1900 + year.
DateUTC(year, month0, date) ==
    LET yr == IF year >= 0 /\ year <= 99 THEN 1900 + year ELSE year
    IN  MakeDay(yr, month0, date)

\* A start-date input: the empty string, a string that does not match
\* YYYY-MM-DD, or a string of that shape with its three numbers.
EmptyDate == [fmt |-> "empty", y |-> 0, m |-> 0, d |-> 0]
MalformedDate == [fmt |-> "bad", y |-> 0, m |-> 0, d |-> 0]
Ymd(y, m, d) == [fmt |-> "ymd", y |-> y, m |-> m, d |-> d]

\* parseDateOnly: null for the empty string, 400 when a part is 0,
\* otherwise new Date(Date.UTC(year, month - 1, day)).
ParseDateOnlyThrows(s) == s.fmt = "ymd" /\ (s.y = 0 \/ s.m = 0 \/ s.d = 0)

parseDateOnly(s) ==
    IF s.fmt = "empty" THEN Null ELSE Some(DateUTC(s.y, s.m - 1, s.d))

\* normalizeStartDate: the trimmed string, or a 400.
NormalizeStartDateThrows(s) == s.fmt = "bad" \/ ParseDateOnlyThrows(s)

\* normalizeDayCount: an integer in 1..60, or a 400.
NormalizeDayCountThrows(n) == n < 1 \/ n > MaxDayCount

\* addDaysUtc: setUTCDate(getUTCDate() + daysToAdd) on a copy.
addDaysUtc(date, daysToAdd) == date + daysToAdd

----------------------------------------------------------------------------
(* Rows *)

TripRow(tripId, joinCode, parsedStartDate, dayCount, userId) ==
    [tripId |-> tripId, joinCode |-> joinCode, startDate |-> parsedStartDate,
     dayCount |-> dayCount, createdByUserId |-> userId, isArchived |-> FALSE]

MemberRow(tripId, userId, role) ==
    [tripId |-> tripId, userId |-> userId, memberRole |-> role, isActive |-> TRUE]

\* The dayRows loop of createTripRecord.
DayRows(tripId, parsedStartDate, dayCount) ==
    {[tripId |-> tripId, dayNumber |-> n,
      tripDate |-> IF parsedStartDate # Null
                   THEN Some(addDaysUtc(parsedStartDate[1], n - 1))
                   ELSE Null] : n \in 1..dayCount}

EmptyTx == [trip |-> {}, member |-> {}, days |-> {}]

----------------------------------------------------------------------------
(* Errors and the error handler *)

NoError == [klass |-> "none", code |-> "", target |-> "", at |-> ""]

JoinCodeViolation(at) ==
    [klass |-> "PrismaClientKnownRequestError", code |-> "P2002",
     target |-> "join_code", at |-> at]

\* A failure of the database itself inside the transaction: the server
\* cannot be reached.
InfraErrors(at) ==
    {[klass |-> "PrismaClientKnownRequestError", code |-> "P1001",
      target |-> "", at |-> at]}

ApiError(status, message) ==
    [klass |-> "ApiError", code |-> message, target |-> "", at |-> "",
     status |-> status]

isJoinCodeNever(error) == FALSE

isAnyError(error) == error.klass # "none"

isJoinCodeUniqueViolation(error) ==
    /\ error.klass = "PrismaClientKnownRequestError"
    /\ error.code = "P2002"
    /\ error.target = "join_code"

isPrismaConnectionError(error) ==
    /\ error.klass = "PrismaClientKnownRequestError"
    /\ error.code \in {"P1001", "P1002", "P1008", "P1017", "P2024"}

\* The express error handler: status and message sent to the client.
ErrorResponse(error) ==
    IF error.klass = "ApiError"
    THEN [status |-> error.status, message |-> error.code]
    ELSE IF isPrismaConnectionError(error)
    THEN [status |-> 500, message |-> "Database connection failed."]
    ELSE [status |-> 500, message |-> "Unexpected server error."]

----------------------------------------------------------------------------
(* The database's part in trip creation *)

JoinCodeNeverTaken(code, rows) == FALSE

\* uq_trips_join_code: a committed trip row (archived or not) has the code.
JoinCodeTaken(code, rows) == \E t \in rows : t.joinCode = code

TxKeepsWrites(staged, committed) == staged

\* db.$transaction: the callback's writes become visible together when it
\* returns, and none of them does when it throws.
TxOutcome(staged, committed) == IF committed THEN staged ELSE EmptyTx

ApplyTx(outcome) ==
    /\ trips' = trips \cup outcome.trip
    /\ tripMembers' = tripMembers \cup outcome.member
    /\ tripDays' = tripDays \cup outcome.days

\* makeId: a UUID no row and no open transaction uses.
UsedTripIds ==
    {t.tripId : t \in trips}
        \cup {call[c].tripId : c \in {k \in Calls : call[k].pc \notin {"idle", "done"}}}

FreshTripId(used) == CHOOSE i \in TripIds \ used : \A j \in TripIds \ used : i <= j

----------------------------------------------------------------------------
(* POST /api/trips *)

IdleCall ==
    [pc |-> "idle", userId |-> "u1", startDate |-> EmptyDate, dayCount |-> 0,
     attempt |-> 0, joinCode |-> 0, tripId |-> 0, tx |-> EmptyTx,
     err |-> NoError, status |-> 0, message |-> ""]

InFlight == {c \in Calls : call[c].pc \notin {"idle", "done"}}

SetCall(c, r) == call' = [call EXCEPT ![c] = r]

Respond(c, status, message) ==
    SetCall(c, [IdleCall EXCEPT !.pc = "done", !.status = status,
                                !.message = message])

\* The handler up to the first attempt of createTripRecord: resolve the
\* user, normalise the body, then draw the first join code and trip id.
\* A new request takes the first free slot.
PostTripsWith(c, who, dates, dayCounts) ==
    /\ call[c].pc = "idle"
    /\ \A k \in Calls : call[k].pc = "idle" => c <= k
    /\ Cardinality(trips) + Cardinality(InFlight) < MaxTrips
    /\ \E u \in who, sd \in dates, dc \in dayCounts, code \in JoinCodes :
        /\ users' = TouchUser(users, u)
        /\ IF NormalizeStartDateThrows(sd)
           THEN SetCall(c, [IdleCall EXCEPT !.pc = "done", !.status = 400,
                    !.message = "Start date is invalid."])
           ELSE IF NormalizeDayCountThrows(dc)
           THEN SetCall(c, [IdleCall EXCEPT !.pc = "done", !.status = 400,
                    !.message = "Day count must be between 1 and 60."])
           ELSE SetCall(c, [IdleCall EXCEPT !.pc = "txTrip", !.userId = u,
                    !.startDate = sd, !.dayCount = dc, !.joinCode = code,
                    !.tripId = FreshTripId(UsedTripIds)])
    /\ UNCHANGED <<tripDb, feedVars>>

\* The transaction callback throws: roll back, hand the error to the catch.
TxFail(c, error) ==
    /\ ApplyTx(TxOutcome(call[c].tx, FALSE))
    /\ SetCall(c, [call[c] EXCEPT !.pc = "catch", !.err = error, !.tx = EmptyTx])

\* tx.trip.create. An insert of a code that an open transaction has
\* inserted waits for that transaction to end.
TxTripCreate(c) ==
    /\ call[c].pc = "txTrip"
    /\ ~ \E d \in Calls \ {c} : JoinCodeTaken(call[c].joinCode, call[d].tx.trip)
    /\ \/ /\ JoinCodeTaken(call[c].joinCode, trips)
          /\ TxFail(c, JoinCodeViolation("txTrip"))
       \/ /\ ~JoinCodeTaken(call[c].joinCode, trips)
          /\ SetCall(c, [call[c] EXCEPT !.pc = "txMember",
                !.tx.trip = {TripRow(call[c].tripId, call[c].joinCode,
                                     parseDateOnly(call[c].startDate),
                                     call[c].dayCount, call[c].userId)}])
          /\ UNCHANGED tripDb
       \/ \E e \in InfraErrors("txTrip") : TxFail(c, e)
    /\ UNCHANGED <<users, feedVars>>

\* tx.tripMember.create with memberRole OWNER.
TxMemberCreate(c) ==
    /\ call[c].pc = "txMember"
    /\ \/ /\ SetCall(c, [call[c] EXCEPT !.pc = "txDays",
                !.tx.member = {MemberRow(call[c].tripId, call[c].userId, "OWNER")}])
          /\ UNCHANGED tripDb
       \/ \E e \in InfraErrors("txMember") : TxFail(c, e)
    /\ UNCHANGED <<users, feedVars>>

\* tx.tripDay.createMany with the rows of the dayRows loop.
TxDayCreateMany(c) ==
    /\ call[c].pc = "txDays"
    /\ \/ /\ SetCall(c, [call[c] EXCEPT !.pc = "txCommit",
                !.tx.days = DayRows(call[c].tripId,
                                    parseDateOnly(call[c].startDate),
                                    call[c].dayCount)])
          /\ UNCHANGED tripDb
       \/ \E e \in InfraErrors("txDays") : TxFail(c, e)
    /\ UNCHANGED <<users, feedVars>>

\* The callback returns: commit; createTripRecord returns tripId.
TxCommit(c) ==
    /\ call[c].pc = "txCommit"
    /\ ApplyTx(TxOutcome(call[c].tx, TRUE))
    /\ SetCall(c, [call[c] EXCEPT !.pc = "load", !.tx = EmptyTx])
    /\ UNCHANGED <<users, feedVars>>

\* catch (error): continue on a join-code violation before the last
\* attempt, otherwise rethrow; the throw after the loop ends the call when
\* the loop runs out.
Catch(c) ==
    /\ call[c].pc = "catch"
    /\ IF isJoinCodeUniqueViolation(call[c].err) /\ call[c].attempt < LastRetryAttempt
       THEN IF call[c].attempt + 1 < MaxJoinAttempts
            THEN \E code \in JoinCodes :
                    SetCall(c, [call[c] EXCEPT !.pc = "txTrip",
                        !.attempt = @ + 1, !.joinCode = code, !.err = NoError,
                        !.tripId = FreshTripId(UsedTripIds \ {call[c].tripId})])
            ELSE LET r == ErrorResponse(ApiError(500, "Unable to generate a unique join code."))
                 IN  Respond(c, r.status, r.message)
       ELSE LET r == ErrorResponse(call[c].err)
            IN  Respond(c, r.status, r.message)
    /\ UNCHANGED <<users, tripDb, feedVars>>

\* getTripById(db, tripId, userId) and the 201 response.
LoadCreatedTrip(c) ==
    /\ call[c].pc = "load"
    /\ IF \E t \in trips : t.tripId = call[c].tripId /\ ~t.isArchived
       THEN Respond(c, 201, "")
       ELSE Respond(c, 500, "Trip was created but could not be loaded.")
    /\ UNCHANGED <<users, tripDb, feedVars>>

\* The client has its response; the slot serves the next request.
CallDone(c) ==
    /\ call[c].pc = "done"
    /\ SetCall(c, IdleCall)
    /\ UNCHANGED <<users, tripDb, feedVars>>

----------------------------------------------------------------------------
(* Feed requests: shared parts *)

MaxPosts == 2        \* feed post rows (and fresh post ids)
MaxComments == 1     \* comment rows
MaxChallengeRows == 1   \* post challenge rows
MaxStamp == 2        \* writes of a post's updatedAt
MaxFiles == 8        \* names of uploaded files

\* const maxPostImageCount = 6
maxPostImageCount == 6

maxChallengesPerPost == 3

Slots == {1, 2}      \* slots for feed requests in flight together
PostIds == 1..MaxPosts
CommentIds == 1..MaxComments
ChallengeIds == 1..MaxChallengeRows

(* Times and post bodies *)

TitleCap == 200     \* slice(0, 200)
maxCrawlLocationsPerPost == 12
POST_TYPES == {"SUGGESTION", "EVENT", "CRAWL"}

\* A time as sent: no text, a text that is not two digits, a colon and two
\* digits, or the two numbers of such a text.
NoTimeText == <<>>
BadTimeText == <<-1>>
ClockText(hh, mm) == <<hh, mm>>

NormalizeTimeThrows(value) == value # NoTimeText /\ Len(value) # 2

\* normalizeTime: null for no text, otherwise the text with ':00' added.
normalizeTime(value) ==
    IF value = NoTimeText THEN Null ELSE Some(<<value[1], value[2], 0>>)

TimeGT(a, b) ==
    \/ a[1][1] > b[1][1]
    \/ a[1][1] = b[1][1] /\ a[1][2] > b[1][2]

\* fromTime >= toTime on two 'HH:MM:00' strings: digit by digit, which is
\* number by number on texts of one shape.
TimeGE(a, b) ==
    \/ a[1][1] > b[1][1]
    \/ a[1][1] = b[1][1] /\ a[1][2] >= b[1][2]

TimeStringToDateThrows(value) ==
    /\ value # Null
    /\ \/ value[1][1] > 23
       \/ value[1][2] > 59
       \/ value[1][3] > 59

\* timeStringToDate: the seconds since midnight of 1970-01-01 UTC.
timeStringToDate(value) ==
    IF value = Null THEN Null
    ELSE Some(value[1][1] * 3600 + value[1][2] * 60 + value[1][3])

\* A coordinate as sent: no text, a text that is no number, or a number.
NoCoordText == [kind |-> "empty", n |-> 0]
BadCoordText == [kind |-> "nan", n |-> 0]
CoordText(n) == [kind |-> "num", n |-> n]

\* normalizeLatitude, normalizeLongitude: null for no text, a number within
\* its range, ApiError(400) for anything else.
NormalizeLatitudeThrows(value) ==
    \/ value.kind = "nan"
    \/ value.kind = "num" /\ (value.n < -90 \/ value.n > 90)

NormalizeLongitudeThrows(value) ==
    \/ value.kind = "nan"
    \/ value.kind = "num" /\ (value.n < -180 \/ value.n > 180)

normalizeLatitude(value) == IF value.kind = "empty" THEN Null ELSE Some(value.n)

normalizeLongitude(value) == IF value.kind = "empty" THEN Null ELSE Some(value.n)

\* The truth values of SQL: a comparison with NULL is unknown ("N").
SqlIsNull(v) == IF v = Null THEN "T" ELSE "F"

SqlBetween(v, lo, hi) ==
    IF v = Null THEN "N" ELSE IF lo <= v[1] /\ v[1] <= hi THEN "T" ELSE "F"

SqlAnd(a, b) ==
    IF a = "F" \/ b = "F" THEN "F" ELSE IF a = "T" /\ b = "T" THEN "T" ELSE "N"

SqlOr(a, b) ==
    IF a = "T" \/ b = "T" THEN "T" ELSE IF a = "F" /\ b = "F" THEN "F" ELSE "N"

\* ck_feed_posts_pin_coordinates and ck_feed_post_crawl_locations_coordinates:
\* a CHECK refuses a row only when its expression is false.
CoordinatesCheck(latitude, longitude) ==
    SqlOr(SqlAnd(SqlIsNull(latitude), SqlIsNull(longitude)),
          SqlAnd(SqlBetween(latitude, -90, 90),
                 SqlBetween(longitude, -180, 180))) # "F"

CrawlLocationsNeverThrow(n) == FALSE

\* normalizeCrawlLocations on an array of n well-formed entries.
NormalizeCrawlLocationsThrows(n) == n > maxCrawlLocationsPerPost

\* The fields of a create-post body the rules look at; stops is the
\* number of entries of crawlLocations.
PostBody(postType, title, eventName, fromTime, toTime, stops) ==
    [postType |-> postType, title |-> title, eventName |-> eventName,
     fromTime |-> fromTime, toTime |-> toTime, stops |-> stops,
     latitude |-> NoCoordText, longitude |-> NoCoordText,
     stopLatitude |-> NoCoordText, stopLongitude |-> NoCoordText]

\* The body with latitude and longitude as sent.
WithCoordinates(b, latitude, longitude) ==
    [b EXCEPT !.latitude = latitude, !.longitude = longitude]

\* The body with latitude and longitude as sent in each entry of
\* crawlLocations.
WithStopCoordinates(b, latitude, longitude) ==
    [b EXCEPT !.stopLatitude = latitude, !.stopLongitude = longitude]

NoBody == PostBody("", EmptyStr, EmptyStr, NoTimeText, NoTimeText, 0)

\* A SUGGESTION with a title and nothing else.
SuggestionBody ==
    PostBody("SUGGESTION", Str("Idea", FALSE, 4), EmptyStr, NoTimeText, NoTimeText, 0)

PostTitle(b) == Slice(toTrimmedString(b.title), TitleCap)
PostEventName(b) == Slice(toTrimmedString(b.eventName), TitleCap)

\* The handler's validation before its first query of the trip: what
\* makes it throw ApiError(400).
PostBodyThrows(b) ==
    \/ b.postType \notin POST_TYPES
    \/ NormalizeTimeThrows(b.fromTime)
    \/ NormalizeTimeThrows(b.toTime)
    \/ NormalizeLatitudeThrows(b.latitude)
    \/ NormalizeLongitudeThrows(b.longitude)
    \/ NormalizeCrawlLocationsThrows(b.stops)
    \/ /\ b.stops > 0
       /\ \/ NormalizeLatitudeThrows(b.stopLatitude)
          \/ NormalizeLongitudeThrows(b.stopLongitude)
    \/ LET fromTime == normalizeTime(b.fromTime)
           toTime == normalizeTime(b.toTime)
       IN  \/ b.postType = "SUGGESTION" /\ PostTitle(b) = EmptyStr
           \/ /\ b.postType = "EVENT"
              /\ \/ PostEventName(b) = EmptyStr
                 \/ fromTime = Null
                 \/ toTime = Null
                 \/ TimeGE(fromTime, toTime)
           \/ /\ b.postType = "CRAWL"
              /\ \/ PostTitle(b) = EmptyStr
                 \/ fromTime = Null
                 \/ toTime = Null
                 \/ TimeGE(fromTime, toTime)
                 \/ b.stops = 0
           \/ /\ b.postType = "SUGGESTION"
              /\ fromTime # Null \/ toTime # Null
              /\ \/ fromTime = Null
                 \/ toTime = Null
                 \/ TimeGE(fromTime, toTime)

OptionalStr(v) == IF v = EmptyStr THEN Null ELSE Some(v)

\* The feed_posts row of feedPost.create.
PostRow(id, tripId, dayNumber, userId, b) ==
    [feedPostId |-> id, tripId |-> tripId, dayNumber |-> dayNumber,
     authorUserId |-> userId, isDeleted |-> FALSE,
     postType |-> b.postType, title |-> OptionalStr(PostTitle(b)),
     eventName |-> OptionalStr(PostEventName(b)),
     fromTime |-> timeStringToDate(normalizeTime(b.fromTime)),
     toTime |-> timeStringToDate(normalizeTime(b.toTime)),
     latitude |-> IF b.postType = "CRAWL"
                  THEN (IF b.stops > 0 THEN normalizeLatitude(b.stopLatitude) ELSE Null)
                  ELSE normalizeLatitude(b.latitude),
     longitude |-> IF b.postType = "CRAWL"
                   THEN (IF b.stops > 0 THEN normalizeLongitude(b.stopLongitude) ELSE Null)
                   ELSE normalizeLongitude(b.longitude),
     updatedAt |-> 0]

\* ck_feed_posts_event_times
EventTimesCheck(row) ==
    \/ row.postType # "EVENT"
    \/ /\ row.eventName # Null
       /\ row.fromTime # Null
       /\ row.toTime # Null
       /\ row.toTime[1] > row.fromTime[1]

\* The generated key of the stop created at an index of a post's list.
LocationId(postId, i) == postId * 16 + i

\* The feed_post_crawl_locations rows of createMany: sortOrder is the
\* index.
StopRows(postId, n, latitude, longitude) ==
    {[crawlLocationId |-> LocationId(postId, i), feedPostId |-> postId,
      sortOrder |-> i, isCompleted |-> FALSE,
      latitude |-> latitude, longitude |-> longitude] : i \in 0 .. n - 1}

\* The rows of stops sent without coordinates.
CrawlLocationRows(postId, n) == StopRows(postId, n, Null, Null)

\* A feed_post_challenges row as created: not completed, no completer.
ChallengeRow(id, postId, userId) ==
    [feedPostChallengeId |-> id, feedPostId |-> postId, authorUserId |-> userId,
     isCompleted |-> FALSE, completedByUserId |-> Null]

\* A feed_post_crawl_location_challenges row as created.
CrawlChallengeRow(id, locationId, userId) ==
    [crawlChallengeId |-> id, crawlLocationId |-> locationId,
     authorUserId |-> userId, isCompleted |-> FALSE, completedByUserId |-> Null]

\* ck_feed_post_challenges_completion_state and
\* ck_feed_post_crawl_location_challenges_completion_state
CompletionStateCheck(row) == row.isCompleted <=> row.completedByUserId # Null

\* What a request carries of its token and body for the identity resolver.
NoAuth == [sub |-> "", email |-> EmptyStr, name |-> EmptyStr, preferred |-> EmptyStr]

FileIds == 1..MaxFiles

IdleReq ==
    [kind |-> "", pc |-> "idle", userId |-> "u1", tripId |-> 0, postId |-> 0,
     itemId |-> 0, arg |-> 0, found |-> FALSE, status |-> 0, count |-> 0,
     auth |-> NoAuth, name |-> EmptyStr, email |-> Null, wrote |-> FALSE,
     body |-> NoBody, order |-> <<>>, text |-> EmptyStr, uploadedFiles |-> {},
     view |-> Null]

At(r, kind, pc) == req[r].kind = kind /\ req[r].pc = pc

\* A new request takes the first free slot; resolveAuthenticatedUser makes
\* sure the caller has a user row.
Begin(r, rec) ==
    /\ req[r].pc = "idle"
    /\ \A k \in Slots : req[k].pc = "idle" => r <= k
    /\ req' = [req EXCEPT ![r] = rec]
    /\ users' = TouchUser(users, rec.userId)

\* The names multer may give a new file: none that is on disk, in an image
\* row, or held by a request in flight.
FreeFiles ==
    FileIds \ (files \cup {i.file : i \in postImages}
                     \cup UNION {req[k].uploadedFiles : k \in Slots})

\* getUploadedFiles: the n files multer wrote for the request.
getUploadedFiles(n) ==
    CHOOSE S \in SUBSET FreeFiles :
        /\ Cardinality(S) = n
        /\ \A x \in S, y \in FreeFiles \ S : x < y

\* cleanupUploadedFiles: unlink of each of the request's files.
cleanupUploadedFiles(uploaded) == files \ uploaded

\* createMany of the image rows, in upload order from sortOrder base on.
ImageRows(postId, uploaded, base) ==
    {[feedPostId |-> postId, file |-> f,
      sortOrder |-> base + Cardinality({g \in uploaded : g < f})] : f \in uploaded}

Goto(r, pc) == req' = [req EXCEPT ![r].pc = pc]

\* The response: what the client sees of the request.
Reply(r, status) ==
    req' = [req EXCEPT ![r] =
        [IdleReq EXCEPT !.pc = "done", !.kind = req[r].kind,
            !.userId = req[r].userId, !.tripId = req[r].tripId,
            !.postId = req[r].postId, !.status = status]]

ReplyCount(r, status, n) ==
    req' = [req EXCEPT ![r] =
        [IdleReq EXCEPT !.pc = "done", !.kind = req[r].kind,
            !.userId = req[r].userId, !.tripId = req[r].tripId,
            !.postId = req[r].postId, !.status = status, !.count = n]]

\* The catch block of the handlers that take uploads: the error response
\* after cleanupUploadedFiles has unlinked every file of the request.
Throw(r, status) ==
    /\ Reply(r, status)
    /\ files' = cleanupUploadedFiles(req[r].uploadedFiles)

Pending(kind) == {k \in Slots : req[k].kind = kind /\ req[k].pc \notin {"idle", "done"}}

isTripMemberAlways(tripId, userId) == TRUE

\* isTripMember: an active membership row of the user in the trip.
isTripMember(tripId, userId) ==
    \E m \in tripMembers : m.tripId = tripId /\ m.userId = userId /\ m.isActive

isTripOwnerAnyRole(tripId, userId) ==
    \E m \in tripMembers : m.tripId = tripId /\ m.userId = userId /\ m.isActive

\* isTripOwner: an active OWNER membership row.
isTripOwner(tripId, userId) ==
    \E m \in tripMembers :
        m.tripId = tripId /\ m.userId = userId /\ m.memberRole = "OWNER" /\ m.isActive

\* feedPost.findFirst({ feedPostId, isDeleted: false })
LivePosts(postId) == {p \in feedPosts : p.feedPostId = postId /\ ~p.isDeleted}

FreshId(ids, used) == CHOOSE i \in ids \ used : \A j \in ids \ used : i <= j

\* The request is over; the slot serves the next one.
ReqDone(r) ==
    /\ req[r].pc = "done"
    /\ req' = [req EXCEPT ![r] = IdleReq]
    /\ UNCHANGED <<users, tripDb, call, feedDb, files, backend>>

----------------------------------------------------------------------------
(* POST /api/trips/join *)

\* A join code as sent: a well-formed code, or 0 for one that
\* normalizeJoinCode rejects.
JoinCodeInputs == JoinCodes \cup {0}

JoinBy(r, who) ==
    /\ \E u \in who, code \in JoinCodeInputs :
        Begin(r, [IdleReq EXCEPT !.kind = "join", !.userId = u, !.arg = code,
                    !.pc = IF code = 0 THEN "done" ELSE "findTrip",
                    !.status = IF code = 0 THEN 400 ELSE 0])
    /\ UNCHANGED <<tripDb, call, feedDb, files, backend>>

JoinStart(r) == JoinBy(r, Users)

JoinFindTrip(r) ==
    /\ At(r, "join", "findTrip")
    /\ LET found == {t \in trips : t.joinCode = req[r].arg /\ ~t.isArchived}
       IN  IF found = {} THEN Reply(r, 404)
           ELSE \E t \in found :
                  req' = [req EXCEPT ![r].tripId = t.tripId, ![r].pc = "ensureFind"]
    /\ UNCHANGED <<users, tripDb, call, feedDb, files, backend>>

\* ensureTripMember: tripMember.findUnique
JoinEnsureFind(r) ==
    /\ At(r, "join", "ensureFind")
    /\ req' = [req EXCEPT ![r].pc = "ensureWrite",
                 ![r].found = \E m \in tripMembers :
                     m.tripId = req[r].tripId /\ m.userId = req[r].userId]
    /\ UNCHANGED <<users, tripDb, call, feedDb, files, backend>>

\* ensureTripMember: update isActive on the row found, or create a MEMBER
\* row (pk_trip_members refuses a second row of the pair).
JoinedRoleOwner(isOwner) == "OWNER"

\* memberRole: isOwner ? 'OWNER' : 'MEMBER'
JoinedRole(isOwner) == IF isOwner THEN "OWNER" ELSE "MEMBER"

ReactivateAsMember(m) == [m EXCEPT !.isActive = TRUE, !.memberRole = "MEMBER"]

\* tripMember.update({ where: key, data: { isActive: true } })
Reactivate(m) == [m EXCEPT !.isActive = TRUE]

JoinEnsureWrite(r) ==
    /\ At(r, "join", "ensureWrite")
    /\ LET mine == {m \in tripMembers :
                        m.tripId = req[r].tripId /\ m.userId = req[r].userId}
       IN  IF req[r].found
           THEN /\ tripMembers' = (tripMembers \ mine)
                        \cup {Reactivate(m) : m \in mine}
                /\ Goto(r, "load")
           ELSE IF mine # {}
           THEN /\ Reply(r, 500)
                /\ UNCHANGED tripMembers
           ELSE /\ tripMembers' = tripMembers
                        \cup {MemberRow(req[r].tripId, req[r].userId,
                                        JoinedRole(FALSE))}
                /\ Goto(r, "load")
    /\ UNCHANGED <<users, trips, tripDays, call, feedDb, files, backend>>

\* getTripById: no view of an archived trip.
TripVisible(tripId) == \E t \in trips : t.tripId = tripId /\ ~t.isArchived

JoinLoad(r) ==
    /\ At(r, "join", "load")
    /\ IF TripVisible(req[r].tripId) THEN Reply(r, 200) ELSE Reply(r, 500)
    /\ UNCHANGED <<users, tripDb, call, feedDb, files, backend>>

----------------------------------------------------------------------------
(* POST /api/posts/:postId/comments *)

CommentBodyWidth == 2000     \* comment_body VARCHAR(2000)

CommentBodies == {EmptyStr, Str("hi", FALSE, 2)}

\* commentBody is the trimmed text, whatever its length.
CommentWith(r, who, bodies) ==
    /\ Cardinality(feedComments) + Cardinality(Pending("comment")) < MaxComments
    /\ \E u \in who, p \in PostIds, body \in bodies :
        LET commentBody == toTrimmedString(body)
        IN  Begin(r, [IdleReq EXCEPT !.kind = "comment", !.userId = u, !.postId = p,
                        !.text = commentBody,
                        !.pc = IF commentBody = EmptyStr THEN "done" ELSE "findPost",
                        !.status = IF commentBody = EmptyStr THEN 400 ELSE 0])
    /\ UNCHANGED <<tripDb, call, feedDb, files, backend>>

CommentBy(r, who) == CommentWith(r, who, CommentBodies)

CommentStart(r) == CommentBy(r, Users)

\* The post lookup shared by the handlers that act on a post.
FindPost(r, kind) ==
    /\ At(r, kind, "findPost")
    /\ IF LivePosts(req[r].postId) = {} THEN Reply(r, 404)
       ELSE \E p \in LivePosts(req[r].postId) :
              req' = [req EXCEPT ![r].tripId = p.tripId, ![r].pc = "member"]
    /\ UNCHANGED <<users, tripDb, call, feedDb, files, backend>>

\* The membership check shared by the handlers that need one.
CheckMember(r, kind, next) ==
    /\ At(r, kind, "member")
    /\ IF isTripMember(req[r].tripId, req[r].userId)
       THEN Goto(r, next)
       ELSE Reply(r, 403)
    /\ UNCHANGED <<users, tripDb, call, feedDb, files, backend>>

CommentFindPost(r) == FindPost(r, "comment")

CommentCheckMember(r) == CheckMember(r, "comment", "write")

\* feedComment.create; a value longer than the column is refused.
CommentCreate(r) ==
    /\ At(r, "comment", "write")
    /\ LET id == FreshId(CommentIds, {c.feedCommentId : c \in feedComments})
       IN  IF req[r].text.len > CommentBodyWidth
           THEN Reply(r, 500) /\ UNCHANGED feedComments
           ELSE /\ feedComments' = feedComments \cup
                    {[feedCommentId |-> id, feedPostId |-> req[r].postId,
                      authorUserId |-> req[r].userId,
                      commentBody |-> req[r].text, isDeleted |-> FALSE]}
                /\ req' = [req EXCEPT ![r].itemId = id, ![r].pc = "load"]
    /\ UNCHANGED <<users, tripDb, call, feedPosts, postVotes, postChallenges, crawlDb, postImages, files,
                   backend>>

\* getCommentById and the 201 response.
CommentLoad(r) ==
    /\ At(r, "comment", "load")
    /\ IF \E c \in feedComments : c.feedCommentId = req[r].itemId
       THEN Reply(r, 201) ELSE Reply(r, 500)
    /\ UNCHANGED <<users, tripDb, call, feedDb, files, backend>>

----------------------------------------------------------------------------
(* POST /api/posts/:postId/votes *)

VoteRow(postId, userId) == [feedPostId |-> postId, userId |-> userId]

VoteToggle(rows, postId, userId) ==
    IF VoteRow(postId, userId) \in rows
    THEN rows \ {VoteRow(postId, userId)}
    ELSE rows \cup {VoteRow(postId, userId)}

\* postVote.upsert with an empty update: create the row unless it exists.
VoteUpsertRows(rows, postId, userId) == rows \cup {VoteRow(postId, userId)}

VoteBy(r, who) ==
    /\ \E u \in who, p \in PostIds :
        Begin(r, [IdleReq EXCEPT !.kind = "vote", !.userId = u, !.postId = p,
                    !.pc = "findPost"])
    /\ UNCHANGED <<tripDb, call, feedDb, files, backend>>

VoteStart(r) == VoteBy(r, Users)

VoteFindPost(r) == FindPost(r, "vote")

VoteCheckMember(r) == CheckMember(r, "vote", "write")

\* The PostgreSQL server: db.postVote.upsert.
VoteUpsert(r) ==
    /\ At(r, "vote", "write")
    /\ backend = "prisma"
    /\ postVotes' = VoteUpsertRows(postVotes, req[r].postId, req[r].userId)
    /\ Goto(r, "count")
    /\ UNCHANGED <<users, tripDb, call, feedPosts, feedComments, postChallenges, crawlDb, postImages, files,
                   backend>>

\* The MSSQL server: IF NOT EXISTS (SELECT 1 FROM app.PostVotes ...)
VoteIfNotExists(r) ==
    /\ At(r, "vote", "write")
    /\ backend = "mssql"
    /\ req' = [req EXCEPT ![r].pc = "insert",
                 ![r].found = VoteRow(req[r].postId, req[r].userId) \in postVotes]
    /\ UNCHANGED <<users, tripDb, call, feedDb, files, backend>>

\* ... BEGIN INSERT INTO app.PostVotes ... END; PK_PostVotes refuses a
\* second row of the pair and the request fails.
VoteInsert(r) ==
    /\ At(r, "vote", "insert")
    /\ IF req[r].found
       THEN Goto(r, "count") /\ UNCHANGED postVotes
       ELSE IF VoteRow(req[r].postId, req[r].userId) \in postVotes
       THEN Reply(r, 500) /\ UNCHANGED postVotes
       ELSE /\ postVotes' = postVotes \cup {VoteRow(req[r].postId, req[r].userId)}
            /\ Goto(r, "count")
    /\ UNCHANGED <<users, tripDb, call, feedPosts, feedComments, postChallenges, crawlDb, postImages, files,
                   backend>>

\* postVote.findMany and the response with voteCount.
VoteCount(r) ==
    /\ At(r, "vote", "count")
    /\ ReplyCount(r, 200,
            Cardinality({v \in postVotes : v.feedPostId = req[r].postId}))
    /\ UNCHANGED <<users, tripDb, call, feedDb, files, backend>>

----------------------------------------------------------------------------
(* POST /api/trips/:tripId/posts (without images) *)

\* Day numbers as sent: 0 is refused by normalizeDayCount, 3 is a day
\* the two-day trip does not have.
PostDayNumbers == {0, 1, 3}

\* The arrival of a request with n images: multer has written the files
\* when the handler runs, and a refused body has them unlinked again.
PostWithFiles(r, who, days, bodies, counts) ==
    /\ Cardinality(feedPosts) + Cardinality(Pending("post")) < MaxPosts
    /\ \E u \in who, t \in TripIds, day \in days, b \in bodies, n \in counts :
        LET throws == NormalizeDayCountThrows(day) \/ PostBodyThrows(b)
        IN  /\ Cardinality(FreeFiles) >= n
            /\ Begin(r, [IdleReq EXCEPT !.kind = "post", !.userId = u, !.tripId = t,
                        !.arg = day, !.body = b,
                        !.uploadedFiles = IF throws THEN {} ELSE getUploadedFiles(n),
                        !.pc = IF throws THEN "done" ELSE "member",
                        !.status = IF throws THEN 400 ELSE 0])
            /\ files' = IF throws THEN files ELSE files \cup getUploadedFiles(n)
    /\ UNCHANGED <<tripDb, call, feedDb, backend>>

PostWith(r, who, days, bodies) == PostWithFiles(r, who, days, bodies, {0})

PostBy(r, who) == PostWith(r, who, PostDayNumbers, {SuggestionBody})

PostStart(r) == PostBy(r, Users)

PostCheckMember(r) ==
    /\ At(r, "post", "member")
    /\ IF isTripMember(req[r].tripId, req[r].userId)
       THEN Goto(r, "findDay") /\ UNCHANGED files
       ELSE Throw(r, 403)
    /\ UNCHANGED <<users, tripDb, call, feedDb, backend>>

DayAlwaysExists(tripId, dayNumber) == TRUE

\* tripDay.findFirst({ where: { tripId, dayNumber } })
DayExists(tripId, dayNumber) ==
    \E d \in tripDays : d.tripId = tripId /\ d.dayNumber = dayNumber

PostFindDay(r) ==
    /\ At(r, "post", "findDay")
    /\ IF DayExists(req[r].tripId, req[r].arg)
       THEN Goto(r, "write") /\ UNCHANGED files
       ELSE Throw(r, 404)
    /\ UNCHANGED <<users, tripDb, call, feedDb, backend>>

\* db.$transaction: feedPost.create, whose data timeStringToDate may refuse
\* and whose row the check constraint may refuse, then createMany of the
\* stops of a CRAWL.
PostCreate(r) ==
    /\ At(r, "post", "write")
    /\ LET id == FreshId(PostIds, {p.feedPostId : p \in feedPosts})
           b == req[r].body
           row == PostRow(id, req[r].tripId, req[r].arg, req[r].userId, b)
       IN  IF \/ TimeStringToDateThrows(normalizeTime(b.fromTime))
              \/ TimeStringToDateThrows(normalizeTime(b.toTime))
           THEN Throw(r, 400) /\ UNCHANGED <<feedPosts, crawlLocations, postImages>>
           ELSE IF \/ ~EventTimesCheck(row)
                   \/ ~CoordinatesCheck(row.latitude, row.longitude)
                   \/ /\ b.postType = "CRAWL" /\ b.stops > 0
                      /\ ~CoordinatesCheck(normalizeLatitude(b.stopLatitude),
                                           normalizeLongitude(b.stopLongitude))
           THEN Throw(r, 500) /\ UNCHANGED <<feedPosts, crawlLocations, postImages>>
           ELSE /\ feedPosts' = feedPosts \cup {row}
                /\ crawlLocations' = crawlLocations \cup
                        (IF b.postType = "CRAWL"
                         THEN StopRows(id, b.stops,
                                       normalizeLatitude(b.stopLatitude),
                                       normalizeLongitude(b.stopLongitude))
                         ELSE {})
                /\ postImages' = postImages \cup ImageRows(id, req[r].uploadedFiles, 0)
                /\ req' = [req EXCEPT ![r].postId = id, ![r].pc = "load"]
                /\ UNCHANGED files
    /\ UNCHANGED <<users, tripDb, call, feedComments, postVotes, postChallenges,
                   crawlChallenges, backend>>

\* getPostById and the 201 response.
PostLoad(r) ==
    /\ At(r, "post", "load")
    /\ IF LivePosts(req[r].postId) # {}
       THEN Reply(r, 201) /\ UNCHANGED files
       ELSE Throw(r, 500)
    /\ UNCHANGED <<users, tripDb, call, feedDb, backend>>

----------------------------------------------------------------------------
(* DELETE /api/posts/:postId *)

DeletePostStart(r) ==
    /\ \E u \in Users, p \in PostIds :
        Begin(r, [IdleReq EXCEPT !.kind = "deletePost", !.userId = u, !.postId = p,
                    !.pc = "findPost"])
    /\ UNCHANGED <<tripDb, call, feedDb, files, backend>>

\* The post lookup; its author is allowed at once, anyone else goes on to
\* the owner check.
DeletePostFind(r) ==
    /\ At(r, "deletePost", "findPost")
    /\ IF LivePosts(req[r].postId) = {} THEN Reply(r, 404)
       ELSE \E p \in LivePosts(req[r].postId) :
              req' = [req EXCEPT ![r].tripId = p.tripId,
                        ![r].pc = IF p.authorUserId = req[r].userId
                                  THEN "write" ELSE "owner"]
    /\ UNCHANGED <<users, tripDb, call, feedDb, files, backend>>

DeletePostCheckOwner(r) ==
    /\ At(r, "deletePost", "owner")
    /\ IF isTripOwner(req[r].tripId, req[r].userId)
       THEN Goto(r, "write") ELSE Reply(r, 403)
    /\ UNCHANGED <<users, tripDb, call, feedDb, files, backend>>

\* feedPost.update({ isDeleted: true })
DeletePostUpdate(r) ==
    /\ At(r, "deletePost", "write")
    /\ feedPosts' = {IF p.feedPostId = req[r].postId
                     THEN [p EXCEPT !.isDeleted = TRUE] ELSE p : p \in feedPosts}
    /\ Reply(r, 200)
    /\ UNCHANGED <<users, tripDb, call, feedComments, postVotes, postChallenges, crawlDb, postImages, files,
                   backend>>

----------------------------------------------------------------------------
(* DELETE /api/trips/:tripId *)

DeleteTripStart(r) ==
    /\ \E u \in Users, t \in TripIds :
        Begin(r, [IdleReq EXCEPT !.kind = "deleteTrip", !.userId = u, !.tripId = t,
                    !.pc = "findTrip"])
    /\ UNCHANGED <<tripDb, call, feedDb, files, backend>>

DeleteTripFind(r) ==
    /\ At(r, "deleteTrip", "findTrip")
    /\ IF TripVisible(req[r].tripId) THEN Goto(r, "owner") ELSE Reply(r, 404)
    /\ UNCHANGED <<users, tripDb, call, feedDb, files, backend>>

DeleteTripCheckOwner(r) ==
    /\ At(r, "deleteTrip", "owner")
    /\ IF isTripOwner(req[r].tripId, req[r].userId)
       THEN Goto(r, "archive") ELSE Reply(r, 403)
    /\ UNCHANGED <<users, tripDb, call, feedDb, files, backend>>

\* trip.updateMany({ isArchived: false } -> { isArchived: true }); no row
\* updated is a 404.
DeleteTripArchive(r) ==
    /\ At(r, "deleteTrip", "archive")
    /\ IF TripVisible(req[r].tripId)
       THEN /\ trips' = {IF t.tripId = req[r].tripId
                         THEN [t EXCEPT !.isArchived = TRUE] ELSE t : t \in trips}
            /\ Goto(r, "deactivate")
       ELSE /\ Reply(r, 404)
            /\ UNCHANGED trips
    /\ UNCHANGED <<users, tripMembers, tripDays, call, feedDb, files, backend>>

RemoveMembers(rows, tripId) == {m \in rows : m.tripId # tripId}

\* tripMember.updateMany({ where: { tripId }, data: { isActive: false } })
DeactivateMembers(rows, tripId) ==
    {IF m.tripId = tripId THEN [m EXCEPT !.isActive = FALSE] ELSE m : m \in rows}

\* The memberships go inactive and the request answers success.
DeleteTripDeactivate(r) ==
    /\ At(r, "deleteTrip", "deactivate")
    /\ tripMembers' = DeactivateMembers(tripMembers, req[r].tripId)
    /\ Reply(r, 200)
    /\ UNCHANGED <<users, trips, tripDays, call, feedDb, files, backend>>

----------------------------------------------------------------------------
(* POST /api/posts/:postId/challenges (no tagged user) *)

ChallengeBy(r, who) ==
    /\ Cardinality(postChallenges) + Cardinality(Pending("challenge")) < MaxChallengeRows
    /\ \E u \in who, p \in PostIds :
        Begin(r, [IdleReq EXCEPT !.kind = "challenge", !.userId = u, !.postId = p,
                    !.pc = "findPost"])
    /\ UNCHANGED <<tripDb, call, feedDb, files, backend>>

ChallengeStart(r) == ChallengeBy(r, Users)

ChallengeFindPost(r) == FindPost(r, "challenge")

ChallengeCheckMember(r) == CheckMember(r, "challenge", "write")

\* db.$transaction: count the post's challenges, refuse the fourth, create.
ChallengeCreate(r) ==
    /\ At(r, "challenge", "write")
    /\ IF Cardinality({c \in postChallenges : c.feedPostId = req[r].postId})
            >= maxChallengesPerPost
       THEN /\ Reply(r, 400)
            /\ UNCHANGED postChallenges
       ELSE LET id == FreshId(ChallengeIds,
                        {c.feedPostChallengeId : c \in postChallenges})
            IN  /\ postChallenges' = postChallenges \cup
                     {ChallengeRow(id, req[r].postId, req[r].userId)}
                /\ req' = [req EXCEPT ![r].itemId = id, ![r].pc = "load"]
    /\ UNCHANGED <<users, tripDb, call, feedPosts, feedComments, postVotes, crawlDb, postImages, files,
                   backend>>

\* getChallengeById and the 201 response.
ChallengeLoad(r) ==
    /\ At(r, "challenge", "load")
    /\ IF \E c \in postChallenges : c.feedPostChallengeId = req[r].itemId
       THEN Reply(r, 201) ELSE Reply(r, 500)
    /\ UNCHANGED <<users, tripDb, call, feedDb, files, backend>>

----------------------------------------------------------------------------
(* DELETE /api/posts/:postId/challenges/:challengeId *)

DeleteChallengeStart(r) ==
    /\ \E u \in Users, p \in PostIds, ch \in ChallengeIds :
        Begin(r, [IdleReq EXCEPT !.kind = "deleteChallenge", !.userId = u,
                    !.postId = p, !.itemId = ch, !.pc = "find"])
    /\ UNCHANGED <<tripDb, call, feedDb, files, backend>>

\* The challenge lookup with its post, then the author test: 404 without
\* a challenge of a live post, 403 for anyone but the author.
DeleteChallengeFind(r) ==
    /\ At(r, "deleteChallenge", "find")
    /\ LET found == {c \in postChallenges :
                        /\ c.feedPostChallengeId = req[r].itemId
                        /\ c.feedPostId = req[r].postId
                        /\ LivePosts(c.feedPostId) # {}}
       IN  IF found = {} THEN Reply(r, 404)
           ELSE \E c \in found :
                  IF c.authorUserId # req[r].userId THEN Reply(r, 403)
                  ELSE \E p \in LivePosts(c.feedPostId) :
                         req' = [req EXCEPT ![r].tripId = p.tripId,
                                   ![r].pc = "write"]
    /\ UNCHANGED <<users, tripDb, call, feedDb, files, backend>>

\* feedPostChallenge.delete; a row that is gone by now fails the request.
DeleteChallengeDelete(r) ==
    /\ At(r, "deleteChallenge", "write")
    /\ LET mine == {c \in postChallenges : c.feedPostChallengeId = req[r].itemId}
       IN  IF mine = {}
           THEN Reply(r, 500) /\ UNCHANGED postChallenges
           ELSE postChallenges' = postChallenges \ mine /\ Reply(r, 200)
    /\ UNCHANGED <<users, tripDb, call, feedPosts, feedComments, postVotes, crawlDb, postImages, files,
                   backend>>

----------------------------------------------------------------------------
(* GET /api/trips/:tripId *)

GetTripStart(r) ==
    /\ \E u \in Users, t \in TripIds :
        Begin(r, [IdleReq EXCEPT !.kind = "getTrip", !.userId = u, !.tripId = t,
                    !.pc = "member"])
    /\ UNCHANGED <<tripDb, call, feedDb, files, backend>>

GetTripCheckMember(r) == CheckMember(r, "getTrip", "load")

ViewPostsDeletedToo(tripId) == {p \in feedPosts : p.tripId = tripId}

\* feedPosts: { where: { isDeleted: false } }
ViewPosts(tripId) == {p \in feedPosts : p.tripId = tripId /\ ~p.isDeleted}

\* comments: { where: { isDeleted: false } } of a post of the view
ViewComments(postId) == {c \in feedComments : c.feedPostId = postId /\ ~c.isDeleted}

\* getTripById: null for a trip that is missing or archived, else the view,
\* of which the posts and the comments under them are kept here.
getTripById(tripId) ==
    IF ~TripVisible(tripId) THEN Null
    ELSE Some([posts |-> {p.feedPostId : p \in ViewPosts(tripId)},
               comments |-> UNION {{c.feedCommentId : c \in ViewComments(p.feedPostId)} :
                                        p \in ViewPosts(tripId)}])

GetTripLoad(r) ==
    /\ At(r, "getTrip", "load")
    /\ LET trip == getTripById(req[r].tripId)
       IN  req' = [req EXCEPT ![r] =
                [IdleReq EXCEPT !.pc = "done", !.kind = req[r].kind,
                    !.userId = req[r].userId, !.tripId = req[r].tripId,
                    !.status = IF trip = Null THEN 404 ELSE 200, !.view = trip]]
    /\ UNCHANGED <<users, tripDb, call, feedDb, files, backend>>

----------------------------------------------------------------------------
(* Specification of the membership guard: a trip with its owner and one
   post, a second user outside, any two requests at a time *)

\* The trip and the post the requests are about, as createTripRecord and
\* the create-post handler leave them.
GuardTripRows == {TripRow(1, 1, Some(DateUTC(2025, 5, 1)), 2, "u1")}
GuardDayRows == DayRows(1, Some(DateUTC(2025, 5, 1)), 2)
GuardPostRows == {PostRow(1, 1, 1, "u1", SuggestionBody)}

InitGuard ==
    /\ users = {SignedIn(u) : u \in Users}
    /\ trips = GuardTripRows
    /\ tripMembers = {MemberRow(1, "u1", "OWNER")}
    /\ tripDays = GuardDayRows
    /\ call = [c \in Calls |-> IdleCall]
    /\ feedPosts = GuardPostRows
    /\ feedComments = {}
    /\ postVotes = {}
    /\ postChallenges = {}
    /\ crawlLocations = {}
    /\ crawlChallenges = {}
    /\ postImages = {}
    /\ files = {}
    /\ req = [r \in Slots |-> IdleReq]
    /\ backend = "prisma"

\* The requests of the user who starts outside the trip.
Outsider == {"u2"}

JoinOutsider(r) == JoinBy(r, Outsider)

CommentOutsider(r) == CommentBy(r, Outsider)

VoteOutsider(r) == VoteBy(r, Outsider)

PostOutsider(r) == PostBy(r, Outsider)

NextGuard ==
    \E r \in Slots :
        \/ JoinOutsider(r) \/ JoinFindTrip(r) \/ JoinEnsureFind(r)
        \/ JoinEnsureWrite(r) \/ JoinLoad(r)
        \/ CommentOutsider(r) \/ CommentFindPost(r) \/ CommentCheckMember(r)
        \/ CommentCreate(r) \/ CommentLoad(r)
        \/ VoteOutsider(r) \/ VoteFindPost(r) \/ VoteCheckMember(r)
        \/ VoteUpsert(r) \/ VoteCount(r)
        \/ PostOutsider(r) \/ PostCheckMember(r) \/ PostFindDay(r)
        \/ PostCreate(r) \/ PostLoad(r)
        \/ ReqDone(r)

SpecGuard == InitGuard /\ [][NextGuard]_vars

----------------------------------------------------------------------------
(* Specification of deletion: the same trip and post, both users, the
   requests that archive, delete and read *)

NextAuthor ==
    \E r \in Slots :
        \/ JoinStart(r) \/ JoinFindTrip(r) \/ JoinEnsureFind(r)
        \/ JoinEnsureWrite(r) \/ JoinLoad(r)
        \/ DeletePostStart(r) \/ DeletePostFind(r) \/ DeletePostCheckOwner(r)
        \/ DeletePostUpdate(r)
        \/ DeleteTripStart(r) \/ DeleteTripFind(r) \/ DeleteTripCheckOwner(r)
        \/ DeleteTripArchive(r) \/ DeleteTripDeactivate(r)
        \/ ChallengeStart(r) \/ ChallengeFindPost(r) \/ ChallengeCheckMember(r)
        \/ ChallengeCreate(r) \/ ChallengeLoad(r)
        \/ DeleteChallengeStart(r) \/ DeleteChallengeFind(r)
        \/ DeleteChallengeDelete(r)
        \/ GetTripStart(r) \/ GetTripCheckMember(r) \/ GetTripLoad(r)
        \/ ReqDone(r)

SpecAuthor == InitGuard /\ [][NextAuthor]_vars

----------------------------------------------------------------------------
(* Specification of voting: two members, one post, either server *)

InitVote ==
    /\ users = {SignedIn(u) : u \in Users}
    /\ trips = GuardTripRows
    /\ tripMembers = {MemberRow(1, "u1", "OWNER"), MemberRow(1, "u2", "MEMBER")}
    /\ tripDays = GuardDayRows
    /\ call = [c \in Calls |-> IdleCall]
    /\ feedPosts = GuardPostRows
    /\ feedComments = {}
    /\ postVotes = {}
    /\ postChallenges = {}
    /\ crawlLocations = {}
    /\ crawlChallenges = {}
    /\ postImages = {}
    /\ files = {}
    /\ req = [r \in Slots |-> IdleReq]
    /\ backend \in {"prisma", "mssql"}

NextVote ==
    \E r \in Slots :
        \/ VoteStart(r) \/ VoteFindPost(r) \/ VoteCheckMember(r)
        \/ VoteUpsert(r) \/ VoteIfNotExists(r) \/ VoteInsert(r)
        \/ VoteCount(r) \/ ReqDone(r)

SpecVote == InitVote /\ [][NextVote]_vars

----------------------------------------------------------------------------
(* Specification of trip creation under concurrent requests *)

TripDates == {EmptyDate, MalformedDate}
TripDayCounts == {0, 2}

PostTrips(c) == PostTripsWith(c, Users, TripDates, TripDayCounts)

\* Both users have signed in (POST /api/auth/session) and have their rows;
\* no trip exists yet.
Init ==
    /\ users = {SignedIn(u) : u \in Users}
    /\ trips = {}
    /\ tripMembers = {}
    /\ tripDays = {}
    /\ call = [c \in Calls |-> IdleCall]
    /\ feedPosts = {}
    /\ feedComments = {}
    /\ postVotes = {}
    /\ postChallenges = {}
    /\ crawlLocations = {}
    /\ crawlChallenges = {}
    /\ postImages = {}
    /\ files = {}
    /\ req = [r \in Slots |-> IdleReq]
    /\ backend = "prisma"

Next ==
    \E c \in Calls :
        \/ PostTrips(c)
        \/ TxTripCreate(c)
        \/ TxMemberCreate(c)
        \/ TxDayCreateMany(c)
        \/ TxCommit(c)
        \/ Catch(c)
        \/ LoadCreatedTrip(c)
        \/ CallDone(c)

Spec == Init /\ [][Next]_vars

----------------------------------------------------------------------------
(* Specification of trip creation by one caller over a range of start      *)
(* dates and day counts                                                    *)

DayDates ==
    {EmptyDate, Ymd(99, 12, 31), Ymd(2024, 2, 28), Ymd(2025, 12, 31),
     Ymd(2025, 2, 31), Ymd(2025, 0, 10)}
DayDayCounts == {1, 3, 60, 61}

PostTripsDated(c) == PostTripsWith(c, {"u1"}, DayDates, DayDayCounts)

NextDays ==
    \/ PostTripsDated(1)
    \/ TxTripCreate(1)
    \/ TxMemberCreate(1)
    \/ TxDayCreateMany(1)
    \/ TxCommit(1)
    \/ Catch(1)
    \/ LoadCreatedTrip(1)
    \/ CallDone(1)

SpecDays == Init /\ [][NextDays]_vars

----------------------------------------------------------------------------
(* Properties of trip creation *)

TripsOf(id) == {t \in trips : t.tripId = id}
MembersOf(id) == {m \in tripMembers : m.tripId = id}
DaysOf(id) == {d \in tripDays : d.tripId = id}
NoRowsOf(id) == TripsOf(id) = {} /\ MembersOf(id) = {} /\ DaysOf(id) = {}

TxPcs == {"txTrip", "txMember", "txDays", "txCommit"}

\* C1: in every state, a committed trip row has its creator's OWNER
\* membership row and its day rows 1..dayCount, no membership or day row
\* exists without its trip, and an attempt that failed has left no row.
C1_TripCreationAtomic ==
    /\ \A t \in trips :
        /\ \E m \in tripMembers :
              /\ m.tripId = t.tripId
              /\ m.userId = t.createdByUserId
              /\ m.memberRole = "OWNER"
        /\ {d.dayNumber : d \in DaysOf(t.tripId)} = 1..t.dayCount
    /\ \A m \in tripMembers : TripsOf(m.tripId) # {}
    /\ \A d \in tripDays : TripsOf(d.tripId) # {}
    /\ \A c \in Calls : call[c].pc = "catch" => NoRowsOf(call[c].tripId)

\* An attempt failed on its last insert, after the trip and membership
\* rows were written inside the transaction, while another trip exists.
C1_Witness ==
    \E c \in Calls :
        call[c].pc = "catch" /\ call[c].err.at = "txDays" /\ trips # {}

\* C2: in every state no two trip rows have the same join code.
C2_JoinCodesUnique ==
    \A t1 \in trips : \A t2 \in trips :
        t1.joinCode = t2.joinCode => t1.tripId = t2.tripId

\* A request drew the join code of a committed trip and its insert was
\* refused.
C2_Witness ==
    \E c \in Calls :
        /\ call[c].pc = "catch"
        /\ call[c].err.target = "join_code"
        /\ \E t \in trips : t.joinCode = call[c].joinCode

\* The rows of a call that went through after a collision, and the rows
\* of one that did not.
C3_State ==
    \A c \in Calls :
        /\ (call[c].pc = "load" /\ call[c].attempt >= 1) =>
              /\ Cardinality(TripsOf(call[c].tripId)) = 1
              /\ MembersOf(call[c].tripId)
                    = {MemberRow(call[c].tripId, call[c].userId, "OWNER")}
              /\ Cardinality(DaysOf(call[c].tripId)) = call[c].dayCount
        /\ (call[c].pc = "catch" /\ call[c].attempt >= 1) =>
              /\ NoRowsOf(call[c].tripId)
              /\ \/ call[c].err.target # "join_code"
                 \/ \E t \in trips : t.joinCode = call[c].joinCode

\* The step out of a collision is the next attempt; the commit of a later
\* attempt adds one trip, one member and dayCount days.
C3_Step ==
    \A c \in Calls :
        /\ (call[c].pc = "catch" /\ call[c].err.target = "join_code"
                /\ call[c].attempt + 1 < MaxJoinAttempts /\ call'[c] # call[c]) =>
              /\ call'[c].pc = "txTrip"
              /\ call'[c].attempt = call[c].attempt + 1
              /\ UNCHANGED tripDb
        /\ (call[c].pc = "txCommit" /\ call[c].attempt >= 1 /\ call'[c] # call[c]) =>
              /\ call'[c].pc = "load"
              /\ Cardinality(trips') = Cardinality(trips) + 1
              /\ Cardinality(tripMembers') = Cardinality(tripMembers) + 1
              /\ Cardinality(tripDays') = Cardinality(tripDays) + call[c].dayCount

\* C3: a call whose first attempt collided and whose later attempt went
\* through has exactly one trip row, one membership row (OWNER, the
\* caller) and dayCount day rows; a later attempt fails only on a code in
\* use or a database failure, leaving no rows; and a collision before the
\* last attempt is followed by the next attempt, not by the end of the call.
C3_RetryAfterCollision == []C3_State /\ [][C3_Step]_vars

\* A call's trip is committed by an attempt after the first.
C3_Witness ==
    \E c \in Calls :
        call[c].pc = "load" /\ call[c].attempt >= 1 /\ Cardinality(trips) = 2

\* The step that ends a call on a collision.
C4_Step ==
    \A c \in Calls :
        (call[c].pc = "catch" /\ call[c].err.target = "join_code"
            /\ call'[c].pc = "done") =>
            /\ call[c].attempt + 1 = MaxJoinAttempts
            /\ UNCHANGED tripDb
            /\ call'[c].status = 500
            /\ call'[c].message = "Unable to generate a unique join code."

\* C4 as claimed: a call ends on a join-code collision only at its 10th
\* attempt, with no row created, and then answers 500 'Unable to generate
\* a unique join code.'
C4_BudgetExhaustedMessage == [][C4_Step]_vars

\* What the code does there: the 10th collision ends the call with no row
\* created and the answer 500 'Unexpected server error.'
BudgetExhaustedUnexpected ==
    [][\A c \in Calls :
        (call[c].pc = "catch" /\ call[c].err.target = "join_code"
            /\ call'[c].pc = "done") =>
            /\ call[c].attempt + 1 = MaxJoinAttempts
            /\ UNCHANGED tripDb
            /\ call'[c].status = 500
            /\ call'[c].message = "Unexpected server error."]_vars

\* The step out of a failure that is no collision.
C5_Step ==
    \A c \in Calls :
        /\ (call[c].pc \in TxPcs /\ call'[c].pc = "catch") =>
              UNCHANGED tripDb
        /\ (call[c].pc = "catch" /\ call[c].err.target # "join_code"
                /\ call'[c] # call[c]) =>
              /\ call'[c].pc = "done"
              /\ call'[c].status = 500
              /\ call'[c].message = "Database connection failed."
              /\ UNCHANGED tripDb

\* C5: a failure other than a join-code collision ends the call at that
\* attempt with a 500, and a failing attempt changes no committed row.
C5_RetryOnlyOnCollision == [][C5_Step]_vars

\* The day-row insert of a second attempt has failed on the database.
C5_Witness ==
    \E c \in Calls :
        /\ call[c].pc = "catch"
        /\ call[c].err.at = "txDays"
        /\ call[c].err.target # "join_code"
        /\ call[c].attempt = 1

\* Calendar dates.
IsCalendarDate(s) ==
    /\ s.fmt = "ymd"
    /\ s.y >= 1
    /\ s.m \in 1..12
    /\ s.d \in 1..DaysInMonth(s.y, s.m)

\* The first day of the month after the month of s.
NextMonthStart(s) ==
    IF s.m < 12 THEN Ymd(s.y, s.m + 1, 1) ELSE Ymd(s.y + 1, 1, 1)

\* The calendar date n days after the calendar date s.
RECURSIVE CivilPlus(_, _)
CivilPlus(s, n) ==
    IF s.d + n <= DaysInMonth(s.y, s.m) THEN Ymd(s.y, s.m, s.d + n)
    ELSE CivilPlus(NextMonthStart(s), n - (DaysInMonth(s.y, s.m) - s.d + 1))

CivilDay(s) == DayFromYear(s.y) + DaysBeforeMonth(s.y, s.m) + s.d - 1

\* C6 as claimed: a created trip has day rows 1..dayCount, each dated
\* start date + (dayNumber - 1) days, or undated when no start date was
\* given.
C6_DayRowsDated ==
    \A c \in Calls :
        (call[c].pc = "load"
            /\ (call[c].startDate.fmt = "empty" \/ IsCalendarDate(call[c].startDate))) =>
            /\ {d.dayNumber : d \in DaysOf(call[c].tripId)} = 1..call[c].dayCount
            /\ Cardinality(DaysOf(call[c].tripId)) = call[c].dayCount
            /\ \A d \in DaysOf(call[c].tripId) :
                  d.tripDate =
                    IF call[c].startDate.fmt = "empty" THEN Null
                    ELSE Some(CivilDay(CivilPlus(call[c].startDate, d.dayNumber - 1)))

\* The same statement for start dates from the year 100 on, where Date.UTC
\* takes the year as written.
DayRowsDatedFromYear100 ==
    \A c \in Calls :
        (call[c].pc = "load"
            /\ (call[c].startDate.fmt = "empty"
                    \/ (IsCalendarDate(call[c].startDate) /\ call[c].startDate.y >= 100))) =>
            /\ {d.dayNumber : d \in DaysOf(call[c].tripId)} = 1..call[c].dayCount
            /\ Cardinality(DaysOf(call[c].tripId)) = call[c].dayCount
            /\ \A d \in DaysOf(call[c].tripId) :
                  d.tripDate =
                    IF call[c].startDate.fmt = "empty" THEN Null
                    ELSE Some(CivilDay(CivilPlus(call[c].startDate, d.dayNumber - 1)))

----------------------------------------------------------------------------
(* Properties of the feed requests *)

\* An active membership row, read off the table.
HasActiveMembership(tripId, userId) ==
    \E m \in tripMembers : m.tripId = tripId /\ m.userId = userId /\ m.isActive

GuardedKinds == {"comment", "post", "vote"}

\* The step request r takes, if any.
Steps(r) == req'[r] # req[r]

TripOfPost(postId) == {p.tripId : p \in {q \in feedPosts : q.feedPostId = postId}}

\* What is stored was stored for a member, and a request answered with
\* success has its row.
C7_State ==
    /\ \A c \in feedComments : \A t \in TripOfPost(c.feedPostId) :
          HasActiveMembership(t, c.authorUserId)
    /\ \A v \in postVotes : \A t \in TripOfPost(v.feedPostId) :
          HasActiveMembership(t, v.userId)
    /\ \A p \in feedPosts : HasActiveMembership(p.tripId, p.authorUserId)
    /\ \A r \in Slots : (req[r].pc = "done" /\ req[r].status \in {200, 201}) =>
          /\ HasActiveMembership(req[r].tripId, req[r].userId)
          /\ req[r].kind = "comment" =>
                \E c \in feedComments :
                    c.feedPostId = req[r].postId /\ c.authorUserId = req[r].userId
          /\ req[r].kind = "vote" => VoteRow(req[r].postId, req[r].userId) \in postVotes
          /\ req[r].kind = "post" =>
                \E p \in feedPosts :
                    /\ p.feedPostId = req[r].postId
                    /\ p.tripId = req[r].tripId
                    /\ p.authorUserId = req[r].userId

\* The membership check turns a non-member away with 403 and no write and
\* lets a member through; past the check the request ends in success.
C7_Step ==
    \A r \in Slots :
        /\ (req[r].kind \in GuardedKinds /\ req[r].pc = "member" /\ Steps(r)) =>
              IF HasActiveMembership(req[r].tripId, req[r].userId)
              THEN req'[r].pc # "done"
              ELSE /\ req'[r].pc = "done"
                   /\ req'[r].status = 403
                   /\ UNCHANGED <<tripDb, feedDb>>
        /\ (/\ req[r].kind \in GuardedKinds
            /\ req[r].pc \in {"write", "load", "count", "findDay"}
            /\ req'[r].pc = "done") =>
              \/ req'[r].status \in {200, 201}
              \/ req[r].pc = "findDay" /\ req[r].arg = 3 /\ req'[r].status = 404
        /\ (req[r].kind = "join" /\ req[r].pc = "load" /\ Steps(r)) =>
              /\ req'[r].status = 200
              /\ HasActiveMembership(req[r].tripId, req[r].userId)

\* C7: for comment, create-post and vote (a request that passes its
\* validation), a caller without an active membership of the trip is
\* answered 403 and nothing is stored; once the caller has joined with the
\* trip's join code the same request succeeds.
C7_GuardThenJoin == []C7_State /\ [][C7_Step]_vars

\* The outsider's comment was refused, the outsider joined, and the same
\* comment was accepted.
C7_Witness ==
    /\ req[1].pc = "done" /\ req[1].kind = "comment" /\ req[1].userId = "u2"
    /\ req[1].postId = 1 /\ req[1].status = 403
    /\ req[2].pc = "done" /\ req[2].kind = "comment" /\ req[2].userId = "u2"
    /\ req[2].postId = 1 /\ req[2].status = 201
    /\ \E c \in feedComments : c.feedPostId = 1 /\ c.authorUserId = "u2"

\* A change of the feed tables, or a trip view answered, by request r.
C8_Step ==
    \A r \in Slots :
        /\ (Steps(r) /\ feedDb' # feedDb) =>
              HasActiveMembership(req[r].tripId, req[r].userId)
        /\ (Steps(r) /\ req[r].kind = "getTrip" /\ req'[r].pc = "done"
                /\ req'[r].status = 200) =>
              HasActiveMembership(req[r].tripId, req[r].userId)

\* C8: no request changes a trip's posts, comments, votes or challenges,
\* or reads its feed, while the caller has no active membership of that
\* trip.
C8_NoWriteWithoutMembership == [][C8_Step]_vars

\* What the handlers do keep: a change by someone without an active
\* membership is a delete by the author of the row.
AuthorDeleteKinds == {"deletePost", "deleteChallenge"}

WriteWithoutMembershipIsAuthorDelete ==
    [][\A r \in Slots :
        (Steps(r) /\ feedDb' # feedDb
            /\ ~HasActiveMembership(req[r].tripId, req[r].userId)) =>
          \/ req[r].kind \in AuthorDeleteKinds
          \/ \E t \in trips : t.tripId = req[r].tripId /\ t.isArchived]_vars

VotesOf(postId) == {v \in postVotes : v.feedPostId = postId}

\* A vote answered with success has its row.
C9_State ==
    \A r \in Slots :
        (req[r].kind = "vote" /\ req[r].pc = "done" /\ req[r].status = 200) =>
            /\ VoteRow(req[r].postId, req[r].userId) \in postVotes
            /\ req[r].count >= 1

\* The write of a vote whose row exists, and the count answered.
C9_Step ==
    \A r \in Slots :
        /\ (/\ req[r].kind = "vote" /\ req[r].pc \in {"write", "insert"}
            /\ Steps(r) /\ req'[r].pc = "count"
            /\ VoteRow(req[r].postId, req[r].userId) \in postVotes) =>
              postVotes' = postVotes
        /\ (req[r].kind = "vote" /\ req[r].pc = "count" /\ Steps(r)) =>
              /\ req'[r].status = 200
              /\ req'[r].count = Cardinality(VotesOf(req[r].postId))
              /\ postVotes' = postVotes

\* C9: voting is idempotent: a second successful vote by the same user on
\* the same post leaves the vote rows as the first left them, and the
\* voteCount reported is the number of rows.
C9_VoteIdempotent == []C9_State /\ [][C9_Step]_vars

\* Two votes of u1 on post 1 have both been answered, with one row.
C9_Witness ==
    /\ backend = "prisma"
    /\ \A r \in Slots :
          /\ req[r].pc = "done" /\ req[r].kind = "vote" /\ req[r].userId = "u1"
          /\ req[r].postId = 1 /\ req[r].status = 200 /\ req[r].count = 1
    /\ postVotes = {VoteRow(1, "u1")}

\* C10: two concurrent votes of one user on one post both complete
\* without an error, and one vote row of the pair exists afterwards.
C10_ConcurrentVotesNoError ==
    \A r \in Slots :
        (req[r].kind = "vote" /\ req[r].pc = "done") =>
            /\ req[r].status # 500
            /\ (req[r].status = 200 =>
                  VoteRow(req[r].postId, req[r].userId) \in postVotes)

\* What does hold: with the upsert no vote fails, and with IF NOT EXISTS
\* the vote that fails still leaves the row of the pair in place.
ConcurrentVotesCollapse ==
    \A r \in Slots :
        (req[r].kind = "vote" /\ req[r].pc = "done" /\ req[r].status \in {200, 500}) =>
            /\ VoteRow(req[r].postId, req[r].userId) \in postVotes
            /\ req[r].status = 500 => backend = "mssql"

----------------------------------------------------------------------------
(* Properties of trip deletion and of rejected requests *)

TripIdsIn(rows) == {t.tripId : t \in rows}

MemberKeysIn(rows) == {<<m.tripId, m.userId>> : m \in rows}

PostIdsIn(rows) == {p.feedPostId : p \in rows}

Archived(tripId) == \E t \in trips : t.tripId = tripId /\ t.isArchived

\* The answer of a delete-trip request, and the rows every step keeps.
C11_Step ==
    /\ TripIdsIn(trips) \subseteq TripIdsIn(trips')
    /\ MemberKeysIn(tripMembers) \subseteq MemberKeysIn(tripMembers')
    /\ tripDays \subseteq tripDays'
    /\ PostIdsIn(feedPosts) \subseteq PostIdsIn(feedPosts')
    /\ \A r \in Slots :
          /\ (req[r].kind = "deleteTrip" /\ Steps(r) /\ req'[r].pc = "done"
                  /\ req'[r].status = 200) =>
                /\ isTripOwner(req[r].tripId, req[r].userId)
                /\ Archived(req[r].tripId)'
                /\ \A m \in tripMembers' : m.tripId = req[r].tripId => ~m.isActive
          /\ (req[r].kind = "deleteTrip" /\ Steps(r)
                  /\ req[r].pc \in {"findTrip", "archive"}
                  /\ Archived(req[r].tripId)) =>
                /\ req'[r].pc = "done"
                /\ req'[r].status = 404
          /\ (req[r].kind = "deleteTrip" /\ Steps(r) /\ req'[r].pc = "done"
                  /\ req'[r].status # 200) =>
                UNCHANGED <<users, tripDb, feedDb>>

\* C11: a successful DELETE of a trip by its owner leaves the trip row in
\* place with its archived flag set and every membership row of the trip
\* inactive, and removes no trip, day, member or post row; a DELETE of a
\* trip that is archived already answers 404 and changes nothing.
C11_TripArchivedNotRemoved == [][C11_Step]_vars

\* The owner's delete was answered 200 and a second delete of the same
\* trip 404, with the rows of the trip still there.
C11_Witness ==
    /\ req[1].pc = "done" /\ req[1].kind = "deleteTrip" /\ req[1].status = 200
    /\ req[2].pc = "done" /\ req[2].kind = "deleteTrip" /\ req[2].status = 404
    /\ req[2].tripId = req[1].tripId
    /\ Archived(req[1].tripId)
    /\ \E m \in tripMembers : m.tripId = req[1].tripId /\ ~m.isActive

----------------------------------------------------------------------------
(* The identity resolver step by step: resolveAuthenticatedUser and
   upsertUser, with POST /api/auth/session and the start of
   POST /api/trips/join as its callers *)

Subs == {"", "s1", "s2"}
TokenEmails == {EmptyStr, Str("E1@X.IO", TRUE, 9), Str("long@x.io", FALSE, 256)}
TokenNames == {EmptyStr, Str("Ann", TRUE, 5), Str("ann@x.io", FALSE, 8)}
PreferredNames == {EmptyStr, Str("Roberta", FALSE, 121)}

AuthInputs ==
    [sub : Subs, email : TokenEmails, name : TokenNames, preferred : PreferredNames]

\* The synchronous head of resolveAuthenticatedUser: normalizeAuthSub and
\* normalizeEmail throw 400 before the first query.
Arrive(r, kind, in, code) ==
    /\ req[r].pc = "idle"
    /\ \A k \in Slots : req[k].pc = "idle" => r <= k
    /\ IF NormalizeAuthSubThrows(in.sub) \/ NormalizeEmailThrows(in.email)
       THEN req' = [req EXCEPT ![r] =
                [IdleReq EXCEPT !.kind = kind, !.pc = "done", !.auth = in,
                                !.status = 400]]
       ELSE req' = [req EXCEPT ![r] =
                [IdleReq EXCEPT !.kind = kind, !.pc = "findMany", !.auth = in,
                                !.arg = code, !.userId = uuidFromString(in.sub)]]
    /\ UNCHANGED <<users, tripDb, call, feedDb, files, backend>>

\* existingUser: the candidate with the token's email, else the one with
\* the derived user id, else any candidate.
PickExisting(candidates, tokenEmail, userId) ==
    IF tokenEmail # Null /\ \E u \in candidates : u.email = tokenEmail
    THEN {CHOOSE u \in candidates : u.email = tokenEmail}
    ELSE IF \E u \in candidates : u.userId = userId
    THEN {CHOOSE u \in candidates : u.userId = userId}
    ELSE IF candidates # {} THEN {CHOOSE u \in candidates : TRUE}
    ELSE {}

\* preferredName || existingDisplayName || tokenDisplayName || 'Traveler'
FirstName(preferredName, existingDisplayName, tokenDisplayName) ==
    IF preferredName.len > 0 THEN preferredName
    ELSE IF existingDisplayName.len > 0 THEN existingDisplayName
    ELSE IF tokenDisplayName.len > 0 THEN tokenDisplayName
    ELSE Traveler

\* user.findMany by user id or token email, and what the resolver makes
\* of the row found: its user id, display name and email.
ResolveFindMany(r) ==
    /\ req[r].pc = "findMany"
    /\ LET in == req[r].auth
           tokenEmail == normalizeEmail(in.email)
           candidates == {u \in users :
                            \/ u.userId = req[r].userId
                            \/ tokenEmail # Null /\ u.email = tokenEmail}
           existing == PickExisting(candidates, tokenEmail, req[r].userId)
           existingName == IF existing = {} THEN EmptyStr
                           ELSE normalizeEditableDisplayName(
                                    (CHOOSE u \in existing : TRUE).displayName)
           existingEmail == IF existing = {} THEN Null
                            ELSE (CHOOSE u \in existing : TRUE).email
       IN  req' = [req EXCEPT
                ![r].pc = "upsertFind",
                ![r].userId = IF existing = {} THEN req[r].userId
                              ELSE (CHOOSE u \in existing : TRUE).userId,
                ![r].name = FirstName(normalizeEditableDisplayName(in.preferred),
                                       existingName,
                                       normalizeEditableDisplayName(in.name)),
                ![r].email = IF tokenEmail # Null THEN tokenEmail ELSE existingEmail]
    /\ UNCHANGED <<users, tripDb, call, feedDb, files, backend>>

\* upsertUser: user.findUnique
UpsertFind(r) ==
    /\ req[r].pc = "upsertFind"
    /\ req' = [req EXCEPT ![r].pc = "upsertWrite",
                          ![r].found = RowExists(users, req[r].userId)]
    /\ UNCHANGED <<users, tripDb, call, feedDb, files, backend>>

\* ux_users_email_not_null: another row has this email.
EmailTaken(rows, userId, email) ==
    email # Null /\ \E u \in rows : u.userId # userId /\ u.email = email

\* upsertUser: user.update of the row found, or user.create; pk_users and
\* ux_users_email_not_null refuse a duplicate, which fails the request.
UpsertWrite(r) ==
    /\ req[r].pc = "upsertWrite"
    /\ LET id == req[r].userId
           safeName == normalizeDisplayName(req[r].name)
           safeEmail == req[r].email
           old == {u \in users : u.userId = id}
           updated == {UserRow(id, safeName,
                          IF safeEmail # Null THEN safeEmail ELSE u.email) : u \in old}
           rows == IF req[r].found THEN (users \ old) \cup updated
                   ELSE users \cup {UserRow(id, safeName, safeEmail)}
       IN  IF \/ EmailTaken(users, id, safeEmail)
              \/ ~req[r].found /\ old # {}
              \/ req[r].found /\ old = {}
           THEN /\ req' = [req EXCEPT ![r] =
                        [IdleReq EXCEPT !.kind = req[r].kind, !.pc = "done",
                            !.userId = req[r].userId, !.status = 500]]
                /\ UNCHANGED users
           ELSE /\ users' = rows
                /\ req' = [req EXCEPT ![r].pc = "resolved",
                                      ![r].wrote = (rows # users)]
    /\ UNCHANGED <<tripDb, call, feedDb, files, backend>>

\* POST /api/auth/session: getUserTrips and the answer with the user id,
\* display name and email.
SessionReply(r) ==
    /\ At(r, "session", "resolved")
    /\ req' = [req EXCEPT ![r] =
            [IdleReq EXCEPT !.kind = "session", !.pc = "done", !.status = 200,
                !.auth = req[r].auth, !.userId = req[r].userId,
                !.name = req[r].name, !.email = req[r].email]]
    /\ UNCHANGED <<users, tripDb, call, feedDb, files, backend>>

\* POST /api/trips/join after the resolver: normalizeJoinCode.
JoinValidate(r) ==
    /\ At(r, "join", "resolved")
    /\ IF req[r].arg = 0 THEN Reply(r, 400) ELSE Goto(r, "findTrip")
    /\ UNCHANGED <<users, tripDb, call, feedDb, files, backend>>

\* Requests whose token and body carry no name.
TokenInputs ==
    [sub : Subs, email : TokenEmails, name : {EmptyStr}, preferred : {EmptyStr}]

SessionArrive(r) == \E in \in TokenInputs : Arrive(r, "session", in, 0)

JoinArrive(r) ==
    \E in \in TokenInputs, code \in JoinCodeInputs : Arrive(r, "join", in, code)

----------------------------------------------------------------------------
(* Specification of the identity resolver: an empty database, any two
   requests at a time *)

InitIdentity ==
    /\ users = {}
    /\ trips = {}
    /\ tripMembers = {}
    /\ tripDays = {}
    /\ call = [c \in Calls |-> IdleCall]
    /\ feedPosts = {}
    /\ feedComments = {}
    /\ postVotes = {}
    /\ postChallenges = {}
    /\ crawlLocations = {}
    /\ crawlChallenges = {}
    /\ postImages = {}
    /\ files = {}
    /\ req = [r \in Slots |-> IdleReq]
    /\ backend = "prisma"

NextIdentity ==
    \E r \in Slots :
        \/ SessionArrive(r) \/ JoinArrive(r)
        \/ ResolveFindMany(r) \/ UpsertFind(r) \/ UpsertWrite(r)
        \/ SessionReply(r) \/ JoinValidate(r) \/ JoinFindTrip(r)
        \/ ReqDone(r)

SpecIdentity == InitIdentity /\ [][NextIdentity]_vars

----------------------------------------------------------------------------
(* Properties of the identity resolver and of rejected requests *)

Rejections == {400, 403, 404}

\* The step that rejects a request.
C12_Step ==
    \A r \in Slots :
        (Steps(r) /\ req'[r].pc = "done" /\ req'[r].status \in Rejections) =>
            /\ ~req[r].wrote
            /\ UNCHANGED <<users, tripDb, feedDb>>

\* C12: a request rejected with 400, 403 or 404 has written nothing: user
\* rows, trips, memberships, posts and their children are as they were
\* before the request.
C12_RejectedWritesNothing == [][C12_Step]_vars

\* What the handlers do keep: a rejected request has written at most the
\* caller's user row, in the resolver, and nothing else.
RejectedWritesOnlyUserRow ==
    [][\A r \in Slots :
        /\ (Steps(r) /\ req'[r].pc = "done" /\ req'[r].status \in Rejections) =>
              UNCHANGED <<users, tripDb, feedDb>>
        /\ (Steps(r) /\ req'[r].wrote /\ ~req[r].wrote) =>
              /\ req[r].pc = "upsertWrite"
              /\ UNCHANGED <<tripDb, feedDb>>
              /\ \A u \in users' \ users : u.userId = req[r].userId]_vars

\* The step that ends a request inside the resolver.
C16_Step ==
    \A r \in Slots :
        (/\ Steps(r) /\ req'[r].pc = "done"
         /\ req[r].pc \in {"idle", "findMany", "upsertFind", "upsertWrite"}) =>
            /\ req'[r].status = 400
            /\ req'[r].auth.sub = ""
            /\ UNCHANGED users

\* C16: the resolver fails in one way only: an empty subject is answered
\* 400 and creates no user row; with a subject the call succeeds, whatever
\* the claims and whatever other calls run at the same time.
C16_OneFailureMode == [][C16_Step]_vars

\* What the resolver does keep: it ends a request with 400 for an empty
\* subject or an email over 255 characters, with 500 when its create or
\* update meets a duplicate, and in each case writes no user row.
ResolverFailureModes ==
    [][\A r \in Slots :
        (/\ Steps(r) /\ req'[r].pc = "done"
         /\ req[r].pc \in {"idle", "findMany", "upsertFind", "upsertWrite"}) =>
            /\ UNCHANGED users
            /\ \/ /\ req[r].pc = "idle" /\ req'[r].status = 400
                  /\ \/ req'[r].auth.sub = ""
                     \/ req'[r].auth.email.len > EmailCap
               \/ /\ req[r].pc = "upsertWrite" /\ req'[r].status = 500
                  /\ \/ EmailTaken(users, req[r].userId, req[r].email)
                     \/ ~req[r].found /\ RowExists(users, req[r].userId)]_vars

----------------------------------------------------------------------------
(* Specification of a repeated sign-in: one client at a time; a call in
   slot 1, then the same call again in slot 2 *)

SessionFirst(r) ==
    /\ r = 1
    /\ req[2].pc = "idle"
    /\ \E in \in AuthInputs : Arrive(r, "session", in, 0)

SessionAgain(r) ==
    /\ r = 2
    /\ req[1].pc = "done" /\ req[1].kind = "session" /\ req[1].status = 200
    /\ Arrive(r, "session", req[1].auth, 0)

\* The client takes the answer; the first answer stays while the second
\* call runs.
ReqDoneInTurn(r) ==
    /\ r = 1 => req[2].pc \in {"idle", "done"}
    /\ ReqDone(r)

NextTwice ==
    \E r \in Slots :
        \/ SessionFirst(r) \/ SessionAgain(r)
        \/ ResolveFindMany(r) \/ UpsertFind(r) \/ UpsertWrite(r)
        \/ SessionReply(r) \/ ReqDoneInTurn(r)

SpecTwice == InitIdentity /\ [][NextTwice]_vars

\* pk_users, and the stored name of a user whose two calls were answered.
C15_State ==
    /\ \A u, v \in users : u.userId = v.userId => u = v
    /\ (\A r \in Slots : req[r].pc = "done" /\ req[r].status = 200) =>
          \E u \in users :
              /\ u.userId = req[2].userId
              /\ u.displayName = normalizeDisplayName(req[1].name)
              /\ u.displayName = normalizeDisplayName(req[2].name)

\* The first call writes at most one row; the repeated call writes
\* nothing and is answered with the user id of the first.
C15_Step ==
    /\ Cardinality(users') <= Cardinality(users) + 1
    /\ (Steps(2) /\ req[2].pc # "done") =>
          /\ UNCHANGED users
          /\ req'[2].pc = "done" =>
                /\ req'[2].status = 200
                /\ req'[2].userId = req[1].userId
                /\ req'[2].email = req[1].email

\* C15: the identity resolver is idempotent: a second call with the same
\* subject, claims and display name is answered with the same user id,
\* creates no user row after the one the first call may have created, and
\* leaves the stored display name as the first call left it.
C15_ResolverIdempotent == []C15_State /\ [][C15_Step]_vars

\* A first contact with a name and an email, and the same call again, both
\* answered.
C15_Witness ==
    /\ \A r \in Slots :
          req[r].pc = "done" /\ req[r].kind = "session" /\ req[r].status = 200
    /\ req[1].auth = req[2].auth
    /\ req[1].auth.email.len > 0
    /\ req[1].auth.name.len > 0
    /\ \E u \in users : u.userId = req[2].userId /\ u.email # Null


----------------------------------------------------------------------------
(* Specification of memberships: a trip is created, joined by code and
   deleted by its owner, any two requests at a time *)

MemberDates == {EmptyDate}
MemberDayCounts == {1}

\* One trip at a time is being created, until one exists.
PostTripsPlain(c) ==
    /\ trips = {}
    /\ PostTripsWith(c, {"u1"}, MemberDates, MemberDayCounts)

\* The owner deletes; the join is the other user's, or the owner's own.
DeleteTripByOwner(r) ==
    /\ \E t \in TripIds :
        Begin(r, [IdleReq EXCEPT !.kind = "deleteTrip", !.userId = "u1",
                    !.tripId = t, !.pc = "findTrip"])
    /\ UNCHANGED <<tripDb, call, feedDb, files, backend>>

JoinByCode(r) ==
    /\ \E u \in Users, code \in JoinCodes :
        Begin(r, [IdleReq EXCEPT !.kind = "join", !.userId = u, !.arg = code,
                    !.pc = "findTrip"])
    /\ UNCHANGED <<tripDb, call, feedDb, files, backend>>

NextMembers ==
    \/ PostTripsPlain(1)
    \/ TxTripCreate(1)
    \/ TxMemberCreate(1)
    \/ TxDayCreateMany(1)
    \/ TxCommit(1)
    \/ Catch(1)
    \/ LoadCreatedTrip(1)
    \/ CallDone(1)
    \/ \E r \in Slots :
        \/ JoinByCode(r) \/ JoinFindTrip(r) \/ JoinEnsureFind(r)
        \/ JoinEnsureWrite(r) \/ JoinLoad(r)
        \/ DeleteTripByOwner(r) \/ DeleteTripFind(r) \/ DeleteTripCheckOwner(r)
        \/ DeleteTripArchive(r) \/ DeleteTripDeactivate(r)
        \/ ReqDone(r)

SpecMembers == Init /\ [][NextMembers]_vars

----------------------------------------------------------------------------
(* The owner row of a trip *)

OwnerRows(rows, tripId) ==
    {m \in rows : m.tripId = tripId /\ m.memberRole = "OWNER"}

C17_State ==
    \A t \in trips :
        /\ Cardinality(OwnerRows(tripMembers, t.tripId)) = 1
        /\ \A m \in OwnerRows(tripMembers, t.tripId) :
            /\ m.userId = t.createdByUserId
            /\ ~m.isActive => t.isArchived

C17_Step ==
    \A m \in tripMembers :
        m.memberRole = "OWNER" =>
            \E n \in tripMembers' :
                /\ n.tripId = m.tripId
                /\ n.userId = m.userId
                /\ n.memberRole = "OWNER"

\* C17: in every reachable state each trip has exactly one membership row
\* with role OWNER, the row of the trip's creator, which is inactive only
\* if the trip is archived; no step removes an OWNER row or changes its
\* role.
C17_OneOwnerPerTrip == []C17_State /\ [][C17_Step]_vars

\* An archived trip whose owner row is still there, inactive, next to the
\* row of a member who joined by code.
C17_Witness ==
    \E t \in trips :
        /\ t.isArchived
        /\ \E m \in OwnerRows(tripMembers, t.tripId) : ~m.isActive
        /\ \E m \in tripMembers : m.tripId = t.tripId /\ m.memberRole = "MEMBER"

----------------------------------------------------------------------------
(* Joining reactivates rather than duplicates *)

RowsOf(rows, tripId, userId) ==
    {m \in rows : m.tripId = tripId /\ m.userId = userId}

C18_State ==
    \A t \in TripIds, u \in Users : Cardinality(RowsOf(tripMembers, t, u)) <= 1

C18_Step ==
    \A r \in Slots :
        (At(r, "join", "ensureWrite") /\ Steps(r)) =>
            LET before == RowsOf(tripMembers, req[r].tripId, req[r].userId)
                after == RowsOf(tripMembers', req[r].tripId, req[r].userId)
                others == tripMembers \ before
            IN  /\ tripMembers' \ after = others
                /\ before # {} /\ req[r].found =>
                    /\ req'[r].pc = "load"
                    /\ after = {[m EXCEPT !.isActive = TRUE] : m \in before}
                /\ before = {} =>
                    /\ req'[r].pc = "load"
                    /\ after = {[tripId |-> req[r].tripId, userId |-> req[r].userId,
                                 memberRole |-> "MEMBER", isActive |-> TRUE]}
                /\ before # {} /\ ~req[r].found =>
                    /\ req'[r].status = 500
                    /\ after = before

\* C18: there is at most one membership row per (trip, user) in every
\* reachable state; the write of a join whose lookup found the user's row
\* sets that row active and leaves its role as it is, the write of a join
\* by a user without a row creates one active MEMBER row, and the write
\* of a join whose lookup came before a concurrent join's insert is
\* refused and leaves the row alone; no join touches another pair's row.
C18_JoinReactivates == []C18_State /\ [][C18_Step]_vars

\* The owner's join by code has written after the trip was deleted: the
\* row found is active and still OWNER.
C18_Witness ==
    \E r \in Slots :
        /\ req[r].kind = "join"
        /\ req[r].pc = "load"
        /\ req[r].found
        /\ \E m \in tripMembers :
            /\ m.tripId = req[r].tripId
            /\ m.userId = req[r].userId
            /\ m.memberRole = "OWNER"
            /\ m.isActive
        /\ \E t \in trips : t.tripId = req[r].tripId /\ t.isArchived


----------------------------------------------------------------------------
(* Specification of post creation: the owner of a two-day trip sends EVENT
   and CRAWL posts, any two requests at a time *)

Dinner == Str("Dinner", TRUE, 8)
PubCrawl == Str("Pubs", FALSE, 4)

\* fromTime and toTime as sent together.
EventTimes ==
    {<<ClockText(9, 59), NoTimeText>>,
     <<NoTimeText, ClockText(10, 0)>>,
     <<ClockText(9, 59), ClockText(9, 59)>>,
     <<ClockText(10, 0), ClockText(9, 59)>>,
     <<ClockText(9, 59), ClockText(10, 0)>>,
     <<ClockText(23, 59), ClockText(24, 0)>>,
     <<ClockText(9, 59), BadTimeText>>}

EventBodies ==
    {PostBody("EVENT", EmptyStr, name, t[1], t[2], 0) :
        name \in {EmptyStr, Dinner}, t \in EventTimes}

CrawlStops == {0, 1, maxCrawlLocationsPerPost, maxCrawlLocationsPerPost + 1}

CrawlBodies ==
    {PostBody("CRAWL", PubCrawl, EmptyStr, ClockText(9, 59), ClockText(10, 0), n) :
        n \in CrawlStops}
    \cup {PostBody("CRAWL", EmptyStr, EmptyStr, ClockText(9, 59), ClockText(10, 0), 1)}

PostDays == {1, 3}

PostTyped(r) == PostWith(r, {"u1"}, PostDays, EventBodies \cup CrawlBodies)

InitPosts ==
    /\ users = {SignedIn(u) : u \in Users}
    /\ trips = GuardTripRows
    /\ tripMembers = {MemberRow(1, "u1", "OWNER")}
    /\ tripDays = GuardDayRows
    /\ call = [c \in Calls |-> IdleCall]
    /\ feedPosts = {}
    /\ feedComments = {}
    /\ postVotes = {}
    /\ postChallenges = {}
    /\ crawlLocations = {}
    /\ crawlChallenges = {}
    /\ postImages = {}
    /\ files = {}
    /\ req = [r \in Slots |-> IdleReq]
    /\ backend = "prisma"

NextPosts ==
    \E r \in Slots :
        \/ PostTyped(r) \/ PostCheckMember(r) \/ PostFindDay(r)
        \/ PostCreate(r) \/ PostLoad(r) \/ ReqDone(r)

SpecPosts == InitPosts /\ [][NextPosts]_vars

----------------------------------------------------------------------------
(* EVENT posts *)

IsClock(text) == Len(text) = 2
Minutes(text) == text[1] * 60 + text[2]
ValidClock(text) == IsClock(text) /\ text[1] <= 23 /\ text[2] <= 59
NonBlank(v) == IF v.pad THEN v.len > 2 ELSE v.len > 0

\* The rules of the claim on a body as sent.
EventBodyOk(b) ==
    /\ NonBlank(b.eventName)
    /\ IsClock(b.fromTime)
    /\ IsClock(b.toTime)
    /\ Minutes(b.toTime) > Minutes(b.fromTime)

Arrives(r, postType) ==
    /\ req[r].pc = "idle"
    /\ req'[r].kind = "post"
    /\ req'[r].body.postType = postType

Writes(r, postType) ==
    /\ At(r, "post", "write")
    /\ req[r].body.postType = postType
    /\ Steps(r)

Refused(r) ==
    /\ req'[r].pc = "done"
    /\ req'[r].status = 400
    /\ UNCHANGED <<feedPosts, crawlLocations>>

C13_State ==
    \A p \in feedPosts :
        p.postType = "EVENT" =>
            /\ p.eventName # Null
            /\ p.fromTime # Null
            /\ p.toTime # Null
            /\ p.toTime[1] > p.fromTime[1]

C13_Step ==
    \A r \in Slots :
        /\ Arrives(r, "EVENT") =>
            IF EventBodyOk(req'[r].body) /\ req'[r].arg \in 1 .. MaxDayCount
            THEN req'[r].pc = "member" /\ UNCHANGED <<feedPosts, crawlLocations>>
            ELSE Refused(r)
        /\ Writes(r, "EVENT") =>
            IF ValidClock(req[r].body.fromTime) /\ ValidClock(req[r].body.toTime)
            THEN /\ req'[r].pc = "load"
                 /\ \E p \in feedPosts' \ feedPosts :
                        /\ p.feedPostId = req'[r].postId
                        /\ p.postType = "EVENT"
                        /\ p.tripId = req[r].tripId
                        /\ p.authorUserId = req[r].userId
                        /\ p.fromTime = <<60 * Minutes(req[r].body.fromTime)>>
                        /\ p.toTime = <<60 * Minutes(req[r].body.toTime)>>
                        /\ feedPosts' = feedPosts \cup {p}
            ELSE Refused(r)
        /\ (At(r, "post", "load") /\ Steps(r)) => req'[r].status = 201

\* C13: an EVENT post is refused with 400 on arrival, nothing written,
\* unless it has a non-blank event name, both times and an end after the
\* start (so without toTime, and with toTime <= fromTime); one that has
\* them, sent by a member for a day of the trip, reaches the write, which
\* persists it with its two times when both are times of day (as for an
\* end one minute after the start) and is followed by the 201 answer;
\* every EVENT row has a name and an end after its start.
C13_EventRules == []C13_State /\ [][C13_Step]_vars

\* The event from 09:59 to 10:00 is stored and its request answered 201.
C13_Witness ==
    \E r \in Slots, p \in feedPosts :
        /\ req[r].kind = "post"
        /\ req[r].status = 201
        /\ req[r].postId = p.feedPostId
        /\ p.postType = "EVENT"
        /\ p.fromTime = <<35940>>
        /\ p.toTime = <<36000>>

----------------------------------------------------------------------------
(* CRAWL posts *)

StopsOf(rows, postId) == {l \in rows : l.feedPostId = postId}

\* What the claim takes as given of a CRAWL body: title and ordered times.
CrawlBodyOtherwiseOk(b) ==
    /\ NonBlank(b.title)
    /\ ValidClock(b.fromTime)
    /\ ValidClock(b.toTime)
    /\ Minutes(b.toTime) > Minutes(b.fromTime)

C14_State ==
    \A p \in feedPosts :
        p.postType = "CRAWL" =>
            Cardinality(StopsOf(crawlLocations, p.feedPostId)) \in 1 .. 12

C14_Step ==
    \A r \in Slots :
        /\ (Arrives(r, "CRAWL") /\ CrawlBodyOtherwiseOk(req'[r].body)
                /\ req'[r].arg \in 1 .. MaxDayCount) =>
            IF req'[r].body.stops \in 1 .. 12
            THEN req'[r].pc = "member" /\ UNCHANGED <<feedPosts, crawlLocations>>
            ELSE Refused(r)
        /\ (Writes(r, "CRAWL") /\ CrawlBodyOtherwiseOk(req[r].body)) =>
            /\ req'[r].pc = "load"
            /\ Cardinality(feedPosts' \ feedPosts) = 1
            /\ \A p \in feedPosts' \ feedPosts :
                /\ p.feedPostId = req'[r].postId
                /\ p.postType = "CRAWL"
                /\ StopsOf(crawlLocations, p.feedPostId) = {}
                /\ crawlLocations' \ crawlLocations
                        = StopsOf(crawlLocations', p.feedPostId)
                /\ {l.sortOrder : l \in StopsOf(crawlLocations', p.feedPostId)}
                        = 0 .. req[r].body.stops - 1
                /\ Cardinality(StopsOf(crawlLocations', p.feedPostId))
                        = req[r].body.stops
        /\ (At(r, "post", "load") /\ Steps(r)) => req'[r].status = 201

\* C14: a CRAWL post with a title and ordered times, sent by a member for
\* a day of the trip, passes the validation exactly when it has 1 to 12
\* stops; with 0 or 13 it is answered 400 and neither a post nor a stop is
\* written; the write of an accepted one adds the post and one stop row per
\* proposed stop, in order, and is followed by the 201 answer; every CRAWL
\* post has between 1 and 12 stop rows.
C14_CrawlStops == []C14_State /\ [][C14_Step]_vars

\* A crawl of 12 stops is stored with its 12 rows and answered 201.
C14_Witness ==
    \E r \in Slots, p \in feedPosts :
        /\ req[r].kind = "post"
        /\ req[r].status = 201
        /\ req[r].postId = p.feedPostId
        /\ p.postType = "CRAWL"
        /\ Cardinality(StopsOf(crawlLocations, p.feedPostId)) = 12


----------------------------------------------------------------------------
(* Toggles and reorder: shared parts *)

CompleterAlways(nextCompleted, userId) == Some(userId)

\* completedByUserId: nextCompleted ? userId : null
CompleterOf(nextCompleted, userId) == IF nextCompleted THEN Some(userId) ELSE Null

\* feedPost.update({ data: { updatedAt: new Date() } }): updatedAt counts
\* the writes of it, each later than the one before.
TouchPost(rows, postId) ==
    {IF p.feedPostId = postId THEN [p EXCEPT !.updatedAt = @ + 1] ELSE p : p \in rows}

StampingKinds == {"toggleCrawlChallenge", "toggleLocation", "reorder", "upload"}

\* The requests that may still write updatedAt leave it within MaxStamp.
CanStamp ==
    \A p \in feedPosts :
        p.updatedAt + Cardinality({k \in Slots : /\ req[k].kind \in StampingKinds
                                                 /\ req[k].pc \notin {"idle", "done"}})
            < MaxStamp

\* findFirst of a live CRAWL post.
LiveCrawls(postId) == {p \in LivePosts(postId) : p.postType = "CRAWL"}

----------------------------------------------------------------------------
(* PATCH /api/posts/:postId/challenges/:challengeId/toggle *)

ToggleChallengeStart(r) ==
    /\ \E u \in Users, p \in PostIds, ch \in ChallengeIds :
        Begin(r, [IdleReq EXCEPT !.kind = "toggleChallenge", !.userId = u,
                    !.postId = p, !.itemId = ch, !.pc = "find"])
    /\ UNCHANGED <<tripDb, call, feedDb, files, backend>>

\* feedPostChallenge.findFirst with its post; found keeps isCompleted as
\* read.
ToggleChallengeFind(r) ==
    /\ At(r, "toggleChallenge", "find")
    /\ LET found == {c \in postChallenges :
                        /\ c.feedPostChallengeId = req[r].itemId
                        /\ c.feedPostId = req[r].postId
                        /\ LivePosts(c.feedPostId) # {}}
       IN  IF found = {} THEN Reply(r, 404)
           ELSE \E c \in found, p \in LivePosts(req[r].postId) :
                  req' = [req EXCEPT ![r].tripId = p.tripId,
                            ![r].found = c.isCompleted, ![r].pc = "member"]
    /\ UNCHANGED <<users, tripDb, call, feedDb, files, backend>>

ToggleChallengeCheckMember(r) == CheckMember(r, "toggleChallenge", "write")

\* feedPostChallenge.update, on its own: the post row is not written.
ToggleChallengeUpdate(r) ==
    /\ At(r, "toggleChallenge", "write")
    /\ LET mine == {c \in postChallenges : c.feedPostChallengeId = req[r].itemId}
           nextCompleted == ~req[r].found
           next(c) == [c EXCEPT !.isCompleted = nextCompleted,
                        !.completedByUserId = CompleterOf(nextCompleted, req[r].userId)]
       IN  IF mine = {} \/ \E c \in mine : ~CompletionStateCheck(next(c))
           THEN Reply(r, 500) /\ UNCHANGED postChallenges
           ELSE /\ postChallenges' = (postChallenges \ mine) \cup {next(c) : c \in mine}
                /\ Goto(r, "load")
    /\ UNCHANGED <<users, tripDb, call, feedPosts, feedComments, postVotes,
                   crawlDb, postImages, files,
                   backend>>

\* getChallengeById and the answer.
ToggleChallengeLoad(r) ==
    /\ At(r, "toggleChallenge", "load")
    /\ IF \E c \in postChallenges : c.feedPostChallengeId = req[r].itemId
       THEN Reply(r, 200) ELSE Reply(r, 500)
    /\ UNCHANGED <<users, tripDb, call, feedDb, files, backend>>

----------------------------------------------------------------------------
(* PATCH /api/posts/:postId/crawl-locations/:locationId/challenges/:challengeId/toggle *)

LocationIds == {l.crawlLocationId : l \in crawlLocations}

ToggleCrawlChallengeStart(r) ==
    /\ CanStamp
    /\ \E u \in Users, p \in PostIds, l \in LocationIds, ch \in ChallengeIds :
        Begin(r, [IdleReq EXCEPT !.kind = "toggleCrawlChallenge", !.userId = u,
                    !.postId = p, !.arg = l, !.itemId = ch, !.pc = "find"])
    /\ UNCHANGED <<tripDb, call, feedDb, files, backend>>

ToggleCrawlChallengeFind(r) ==
    /\ At(r, "toggleCrawlChallenge", "find")
    /\ LET found == {c \in crawlChallenges :
                        /\ c.crawlChallengeId = req[r].itemId
                        /\ c.crawlLocationId = req[r].arg
                        /\ \E l \in crawlLocations :
                            /\ l.crawlLocationId = c.crawlLocationId
                            /\ l.feedPostId = req[r].postId
                        /\ LiveCrawls(req[r].postId) # {}}
       IN  IF found = {} THEN Reply(r, 404)
           ELSE \E c \in found, p \in LiveCrawls(req[r].postId) :
                  req' = [req EXCEPT ![r].tripId = p.tripId,
                            ![r].found = c.isCompleted, ![r].pc = "member"]
    /\ UNCHANGED <<users, tripDb, call, feedDb, files, backend>>

ToggleCrawlChallengeCheckMember(r) == CheckMember(r, "toggleCrawlChallenge", "write")

\* db.$transaction: feedPostCrawlLocationChallenge.update, feedPost.update.
ToggleCrawlChallengeTx(r) ==
    /\ At(r, "toggleCrawlChallenge", "write")
    /\ LET mine == {c \in crawlChallenges : c.crawlChallengeId = req[r].itemId}
           nextCompleted == ~req[r].found
           next(c) == [c EXCEPT !.isCompleted = nextCompleted,
                        !.completedByUserId = CompleterOf(nextCompleted, req[r].userId)]
       IN  IF mine = {} \/ \E c \in mine : ~CompletionStateCheck(next(c))
           THEN Reply(r, 500) /\ UNCHANGED <<crawlChallenges, feedPosts>>
           ELSE /\ crawlChallenges' = (crawlChallenges \ mine) \cup {next(c) : c \in mine}
                /\ feedPosts' = TouchPost(feedPosts, req[r].postId)
                /\ Goto(r, "load")
    /\ UNCHANGED <<users, tripDb, call, feedComments, postVotes, postChallenges,
                   crawlLocations, postImages, files,
                   backend>>

\* getCrawlLocationChallengeById and the answer.
ToggleCrawlChallengeLoad(r) ==
    /\ At(r, "toggleCrawlChallenge", "load")
    /\ IF \E c \in crawlChallenges : c.crawlChallengeId = req[r].itemId
       THEN Reply(r, 200) ELSE Reply(r, 500)
    /\ UNCHANGED <<users, tripDb, call, feedDb, files, backend>>

----------------------------------------------------------------------------
(* PATCH /api/posts/:postId/crawl-locations/:locationId/toggle *)

ToggleLocationBy(r, who) ==
    /\ CanStamp
    /\ \E u \in who, p \in PostIds, l \in LocationIds :
        Begin(r, [IdleReq EXCEPT !.kind = "toggleLocation", !.userId = u,
                    !.postId = p, !.arg = l, !.pc = "find"])
    /\ UNCHANGED <<tripDb, call, feedDb, files, backend>>

ToggleLocationFind(r) ==
    /\ At(r, "toggleLocation", "find")
    /\ LET found == {l \in crawlLocations :
                        /\ l.crawlLocationId = req[r].arg
                        /\ l.feedPostId = req[r].postId
                        /\ LiveCrawls(req[r].postId) # {}}
       IN  IF found = {} THEN Reply(r, 404)
           ELSE \E l \in found, p \in LiveCrawls(req[r].postId) :
                  req' = [req EXCEPT ![r].tripId = p.tripId,
                            ![r].found = l.isCompleted, ![r].pc = "member"]
    /\ UNCHANGED <<users, tripDb, call, feedDb, files, backend>>

ToggleLocationCheckMember(r) == CheckMember(r, "toggleLocation", "write")

\* db.$transaction: feedPostCrawlLocation.update, feedPost.update.
ToggleLocationTx(r) ==
    /\ At(r, "toggleLocation", "write")
    /\ LET mine == {l \in crawlLocations : l.crawlLocationId = req[r].arg}
       IN  IF mine = {}
           THEN Reply(r, 500) /\ UNCHANGED <<crawlLocations, feedPosts>>
           ELSE /\ crawlLocations' = (crawlLocations \ mine)
                        \cup {[l EXCEPT !.isCompleted = ~req[r].found] : l \in mine}
                /\ feedPosts' = TouchPost(feedPosts, req[r].postId)
                /\ Goto(r, "load")
    /\ UNCHANGED <<users, tripDb, call, feedComments, postVotes, postChallenges,
                   crawlChallenges, postImages, files,
                   backend>>

\* getPostById and the answer.
ToggleLocationLoad(r) ==
    /\ At(r, "toggleLocation", "load")
    /\ IF LivePosts(req[r].postId) # {} THEN Reply(r, 200) ELSE Reply(r, 500)
    /\ UNCHANGED <<users, tripDb, call, feedDb, files, backend>>

----------------------------------------------------------------------------
(* PATCH /api/posts/:postId/crawl-locations/reorder *)

RECURSIVE SeqsOver(_, _)
SeqsOver(ids, n) ==
    IF n = 0 THEN {<<>>}
    ELSE {Append(s, i) : s \in SeqsOver(ids, n - 1), i \in ids}

\* An id of no stop.
UnknownLocationId == LocationId(0, 0)

\* orderedLocationIds as sent: every list of the post's stops and an
\* unknown id of the length of the list, or of stops and one shorter.
ReorderInputs(postId) ==
    LET ids == {l.crawlLocationId : l \in {x \in crawlLocations : x.feedPostId = postId}}
        n == Cardinality(ids)
    IN  SeqsOver(ids \cup {UnknownLocationId}, n)
            \cup (IF n > 0 THEN SeqsOver(ids, n - 1) ELSE {})

ReorderBy(r, who) ==
    /\ CanStamp
    /\ \E u \in who, p \in PostIds : \E order \in ReorderInputs(p) :
        Begin(r, [IdleReq EXCEPT !.kind = "reorder", !.userId = u,
                    !.postId = p, !.order = order, !.pc = "findPost"])
    /\ UNCHANGED <<tripDb, call, feedDb, files, backend>>

ReorderFindPost(r) ==
    /\ At(r, "reorder", "findPost")
    /\ IF LiveCrawls(req[r].postId) = {} THEN Reply(r, 404)
       ELSE \E p \in LiveCrawls(req[r].postId) :
              req' = [req EXCEPT ![r].tripId = p.tripId, ![r].pc = "member"]
    /\ UNCHANGED <<users, tripDb, call, feedDb, files, backend>>

ReorderCheckMember(r) == CheckMember(r, "reorder", "findMany")

\* feedPostCrawlLocation.findMany and the tests of the list sent: all the
\* stops, each once.
ReorderLengthOnly(order, currentIds) == Len(order) # Cardinality(currentIds)

\* The three tests of the list against the stops found; the sorted lists
\* agree exactly when a list of the right length names every stop.
ReorderListThrows(order, currentIds) ==
    \/ currentIds = {}
    \/ Len(order) # Cardinality(currentIds)
    \/ {order[i] : i \in 1 .. Len(order)} # currentIds

ReorderFindMany(r) ==
    /\ At(r, "reorder", "findMany")
    /\ LET currentIds == {l.crawlLocationId :
                            l \in {x \in crawlLocations : x.feedPostId = req[r].postId}}
           order == req[r].order
       IN  IF ReorderListThrows(order, currentIds)
           THEN Reply(r, 400)
           ELSE Goto(r, "write")
    /\ UNCHANGED <<users, tripDb, call, feedDb, files, backend>>

\* db.$transaction: feedPostCrawlLocation.update of every stop to its
\* index in the list, feedPost.update.
ReorderTx(r) ==
    /\ At(r, "reorder", "write")
    /\ LET order == req[r].order
           listed == {order[i] : i \in 1 .. Len(order)}
           IndexOf(id) == CHOOSE i \in 1 .. Len(order) : order[i] = id
       IN  IF \E id \in listed : ~ \E l \in crawlLocations : l.crawlLocationId = id
           THEN Reply(r, 500) /\ UNCHANGED <<crawlLocations, feedPosts>>
           ELSE /\ crawlLocations' =
                    {IF l.crawlLocationId \in listed
                     THEN [l EXCEPT !.sortOrder = IndexOf(l.crawlLocationId) - 1]
                     ELSE l : l \in crawlLocations}
                /\ feedPosts' = TouchPost(feedPosts, req[r].postId)
                /\ Goto(r, "load")
    /\ UNCHANGED <<users, tripDb, call, feedComments, postVotes, postChallenges,
                   crawlChallenges, postImages, files,
                   backend>>

\* getPostById and the answer.
ReorderLoad(r) ==
    /\ At(r, "reorder", "load")
    /\ IF LivePosts(req[r].postId) # {} THEN Reply(r, 200) ELSE Reply(r, 500)
    /\ UNCHANGED <<users, tripDb, call, feedDb, files, backend>>

----------------------------------------------------------------------------
(* Specification of the toggles and the reorder: a crawl of two stops with
   a challenge on the post and one on its first stop, owner and member
   sending any two requests at a time *)

CrawlBody ==
    PostBody("CRAWL", Str("Pubs", FALSE, 4), EmptyStr,
             ClockText(9, 59), ClockText(10, 0), 2)

InitCrawl ==
    /\ users = {SignedIn(u) : u \in Users}
    /\ trips = GuardTripRows
    /\ tripMembers = {MemberRow(1, "u1", "OWNER"), MemberRow(1, "u2", "MEMBER")}
    /\ tripDays = GuardDayRows
    /\ call = [c \in Calls |-> IdleCall]
    /\ feedPosts = {PostRow(1, 1, 1, "u1", CrawlBody)}
    /\ feedComments = {}
    /\ postVotes = {}
    /\ postChallenges = {ChallengeRow(1, 1, "u1")}
    /\ crawlLocations = CrawlLocationRows(1, CrawlBody.stops)
    /\ crawlChallenges = {CrawlChallengeRow(1, LocationId(1, 0), "u1")}
    /\ postImages = {}
    /\ files = {}
    /\ req = [r \in Slots |-> IdleReq]
    /\ backend = "prisma"

ToggleLocationStart(r) == ToggleLocationBy(r, {"u1"})
ReorderStart(r) == ReorderBy(r, {"u1"})

NextCrawl ==
    \E r \in Slots :
        \/ ToggleChallengeStart(r) \/ ToggleChallengeFind(r)
        \/ ToggleChallengeCheckMember(r) \/ ToggleChallengeUpdate(r)
        \/ ToggleChallengeLoad(r)
        \/ ToggleCrawlChallengeStart(r) \/ ToggleCrawlChallengeFind(r)
        \/ ToggleCrawlChallengeCheckMember(r) \/ ToggleCrawlChallengeTx(r)
        \/ ToggleCrawlChallengeLoad(r)
        \/ ToggleLocationStart(r) \/ ToggleLocationFind(r)
        \/ ToggleLocationCheckMember(r) \/ ToggleLocationTx(r)
        \/ ToggleLocationLoad(r)
        \/ ReorderStart(r) \/ ReorderFindPost(r) \/ ReorderCheckMember(r)
        \/ ReorderFindMany(r) \/ ReorderTx(r) \/ ReorderLoad(r)
        \/ ReqDone(r)

SpecCrawl == InitCrawl /\ [][NextCrawl]_vars


----------------------------------------------------------------------------
(* Completion flag and completer *)

Consistent(row) ==
    \/ row.isCompleted /\ row.completedByUserId # <<>>
    \/ ~row.isCompleted /\ row.completedByUserId = <<>>

C19_State ==
    /\ \A c \in postChallenges : Consistent(c)
    /\ \A c \in crawlChallenges : Consistent(c)

\* What a toggle by the user leaves of a row it read with the flag as read.
Toggled(row, readCompleted, userId) ==
    /\ row.isCompleted = ~readCompleted
    /\ row.completedByUserId = IF readCompleted THEN <<>> ELSE <<userId>>

C19_Step ==
    /\ postChallenges' # postChallenges =>
        \E r \in Slots : At(r, "toggleChallenge", "write") /\ Steps(r)
    /\ crawlChallenges' # crawlChallenges =>
        \E r \in Slots : At(r, "toggleCrawlChallenge", "write") /\ Steps(r)
    /\ \A r \in Slots :
        /\ (At(r, "toggleChallenge", "write") /\ Steps(r)) =>
            /\ req'[r].pc = "load"
            /\ \E c \in postChallenges' :
                /\ c.feedPostChallengeId = req[r].itemId
                /\ Toggled(c, req[r].found, req[r].userId)
            /\ \A c \in postChallenges :
                c.feedPostChallengeId # req[r].itemId => c \in postChallenges'
            /\ Cardinality(postChallenges') = Cardinality(postChallenges)
        /\ (At(r, "toggleCrawlChallenge", "write") /\ Steps(r)) =>
            /\ req'[r].pc = "load"
            /\ \E c \in crawlChallenges' :
                /\ c.crawlChallengeId = req[r].itemId
                /\ Toggled(c, req[r].found, req[r].userId)
            /\ \A c \in crawlChallenges :
                c.crawlChallengeId # req[r].itemId => c \in crawlChallenges'
            /\ Cardinality(crawlChallenges') = Cardinality(crawlChallenges)

\* C19: in every reachable state every post challenge and every crawl-stop
\* challenge has its completion flag set exactly when its completer is
\* set; the write of a toggle succeeds and leaves the row with the flag
\* inverted from what the toggle read and with the toggling user as
\* completer when the flag is set, no completer when it is cleared, and
\* no other row of the table changed; nothing but these writes changes a
\* challenge row.
C19_FlagAndCompleterTogether == []C19_State /\ [][C19_Step]_vars

\* A toggle of the member has set the post challenge, and a toggle that
\* read the stop's challenge as completed has cleared it.
C19_Witness ==
    /\ \E c \in postChallenges : c.isCompleted /\ c.completedByUserId = <<"u2">>
    /\ \E r \in Slots :
        /\ req[r].kind = "toggleCrawlChallenge"
        /\ req[r].pc = "load"
        /\ req[r].found
        /\ \E c \in crawlChallenges :
            /\ c.crawlChallengeId = req[r].itemId
            /\ ~c.isCompleted
            /\ c.completedByUserId = <<>>

----------------------------------------------------------------------------
(* Updated rows and the post's update timestamp *)

StopsIn(locations, postId) == {l \in locations : l.feedPostId = postId}

StopChallengesIn(locations, challenges, postId) ==
    {c \in challenges :
        \E l \in StopsIn(locations, postId) : l.crawlLocationId = c.crawlLocationId}

ChallengesIn(challenges, postId) == {c \in challenges : c.feedPostId = postId}

Bumped(postId) ==
    \E p \in feedPosts, q \in feedPosts' :
        /\ p.feedPostId = postId
        /\ q.feedPostId = postId
        /\ q.updatedAt > p.updatedAt

StopsWritten(postId) ==
    \/ StopsIn(crawlLocations', postId) # StopsIn(crawlLocations, postId)
    \/ StopChallengesIn(crawlLocations', crawlChallenges', postId)
            # StopChallengesIn(crawlLocations, crawlChallenges, postId)

ChallengesWritten(postId) ==
    ChallengesIn(postChallenges', postId) # ChallengesIn(postChallenges, postId)

C20_Step ==
    \A postId \in PostIds :
        (StopsWritten(postId) \/ ChallengesWritten(postId)) => Bumped(postId)

\* C20: every step of the reorder, the stop toggle and the two challenge
\* toggles that changes stops or challenges of a post writes the post's
\* update timestamp in the same step, so that no state shows the changed
\* rows next to the timestamp as it was.
C20_RowsAndTimestampTogether == [][C20_Step]_vars

CrawlWritesStep == \A postId \in PostIds : StopsWritten(postId) => Bumped(postId)

\* The reorder, the stop toggle and the stop-challenge toggle do write the
\* timestamp in the step that changes their rows.
CrawlWritesBumpPost == [][CrawlWritesStep]_vars


----------------------------------------------------------------------------
(* Reorder keeps the stops a permutation *)

SortOrders(locations, postId) == {l.sortOrder : l \in StopsIn(locations, postId)}

IsPermutationOfStops(order, postId) ==
    /\ Len(order) = Cardinality(StopsIn(crawlLocations, postId))
    /\ \A l \in StopsIn(crawlLocations, postId) :
        Cardinality({i \in 1 .. Len(order) : order[i] = l.crawlLocationId}) = 1

C27_State ==
    \A p \in feedPosts :
        LET n == Cardinality(StopsIn(crawlLocations, p.feedPostId))
        IN  /\ SortOrders(crawlLocations, p.feedPostId) = 0 .. n - 1
            /\ \A k, l \in StopsIn(crawlLocations, p.feedPostId) :
                k.sortOrder = l.sortOrder => k = l

C27_Step ==
    \A r \in Slots :
        /\ (At(r, "reorder", "findMany") /\ Steps(r)) =>
            /\ UNCHANGED crawlLocations
            /\ IF IsPermutationOfStops(req[r].order, req[r].postId)
               THEN req'[r].pc = "write"
               ELSE req'[r].pc = "done" /\ req'[r].status = 400
        /\ (At(r, "reorder", "write") /\ Steps(r)) =>
            /\ req'[r].pc = "load"
            /\ \A i \in 1 .. Len(req[r].order) :
                \E l \in crawlLocations' :
                    /\ l.crawlLocationId = req[r].order[i]
                    /\ l.feedPostId = req[r].postId
                    /\ l.sortOrder = i - 1
            /\ Cardinality(crawlLocations') = Cardinality(crawlLocations)
        /\ (req[r].kind = "reorder" /\ req[r].pc # "write" /\ Steps(r)) =>
            UNCHANGED crawlLocations

\* C27: a reorder passes its tests exactly when orderedLocationIds names
\* every stop of the post once (a shorter list, a duplicate or an unknown
\* id is answered 400); the write of an accepted one leaves each stop at
\* the index the list gives it; in every reachable state the sortOrder
\* values of a post's stops are 0..n-1 without duplicates; no other step
\* of a reorder changes a stop.
C27_ReorderPermutes == []C27_State /\ [][C27_Step]_vars

\* The two stops have been swapped by an accepted reorder.
C27_Witness ==
    /\ \E l \in crawlLocations :
        l.crawlLocationId = LocationId(1, 0) /\ l.sortOrder = 1
    /\ \E l \in crawlLocations :
        l.crawlLocationId = LocationId(1, 1) /\ l.sortOrder = 0
    /\ \E r \in Slots : req[r].kind = "reorder" /\ req[r].status = 200


----------------------------------------------------------------------------
(* Toggles flip the flag *)

FlagOf(rows, key, id) == {x.isCompleted : x \in {y \in rows : y[key] = id}}

Flips(r, kind, rows, rowsAfter, key, id) ==
    (At(r, kind, "write") /\ Steps(r) /\ req'[r].pc = "load") =>
        \A before \in FlagOf(rows, key, id) : FlagOf(rowsAfter, key, id) = {~before}

C28_Step ==
    \A r \in Slots :
        /\ Flips(r, "toggleChallenge", postChallenges, postChallenges',
                 "feedPostChallengeId", req[r].itemId)
        /\ Flips(r, "toggleCrawlChallenge", crawlChallenges, crawlChallenges',
                 "crawlChallengeId", req[r].itemId)
        /\ Flips(r, "toggleLocation", crawlLocations, crawlLocations',
                 "crawlLocationId", req[r].arg)

\* C28: the write of every successful toggle of a post challenge, a
\* crawl-stop challenge or a crawl stop inverts the completion flag the
\* row has at that moment, so that k successful toggles leave the flag
\* at its initial value for even k and at the opposite for odd k.
C28_EveryToggleFlips == [][C28_Step]_vars


----------------------------------------------------------------------------
(* Archived trips and their memberships *)

Quiet ==
    /\ \A r \in Slots : req[r].pc \in {"idle", "done"}
    /\ \A c \in Calls : call[c].pc \in {"idle", "done"}

\* C29: whenever no request is in flight, no archived trip has an active
\* membership row, also after a join that ran concurrently with the
\* owner's delete of the trip.
C29_ArchivedTripHasNoActiveMember ==
    Quiet =>
        \A t \in trips :
            t.isArchived =>
                ~ \E m \in tripMembers : m.tripId = t.tripId /\ m.isActive


----------------------------------------------------------------------------
(* Posts and their days *)

C24_State ==
    \A p \in feedPosts :
        \E d \in tripDays : d.tripId = p.tripId /\ d.dayNumber = p.dayNumber

C24_Step ==
    /\ tripDays' = tripDays
    /\ \A r \in Slots :
        (At(r, "post", "findDay") /\ Steps(r)
            /\ ~ \E d \in tripDays :
                    d.tripId = req[r].tripId /\ d.dayNumber = req[r].arg) =>
            /\ req'[r].pc = "done"
            /\ req'[r].status = 404
            /\ UNCHANGED <<feedPosts, crawlLocations>>

----------------------------------------------------------------------------
(* Specification of comment texts: two members comment on a post with
   short, padded and long bodies, any two requests at a time *)

LongBodies ==
    {EmptyStr, Str("  ", TRUE, 2), Str("hi", TRUE, 4),
     Str("aaa", FALSE, CommentBodyWidth), Str("aaa", TRUE, CommentBodyWidth + 2),
     Str("aaa", FALSE, CommentBodyWidth + 1)}

CommentLong(r) == CommentWith(r, Users, LongBodies)

NextText ==
    \E r \in Slots :
        \/ CommentLong(r) \/ CommentFindPost(r) \/ CommentCheckMember(r)
        \/ CommentCreate(r) \/ CommentLoad(r) \/ ReqDone(r)

\* The Postgres backend, with the post and the two members.
InitText == InitVote /\ backend = "prisma"

SpecText == InitText /\ [][NextText]_vars

----------------------------------------------------------------------------
(* Texts are capped *)

Capped(len, cap) == IF len > cap THEN cap ELSE len

C22_Step ==
    \A r \in Slots :
        (At(r, "comment", "write") /\ Steps(r)) =>
            /\ req'[r].pc = "load"
            /\ \E c \in feedComments' \ feedComments :
                /\ c.feedCommentId = req'[r].itemId
                /\ c.commentBody.len = Capped(req[r].text.len, 2000)

\* C22: the write of a comment whose trimmed body has any length succeeds
\* and stores the body cut to at most 2000 characters; no stored comment
\* body is longer than 2000 characters.
C22_CommentBodyCapped ==
    /\ [](\A c \in feedComments : c.commentBody.len <= 2000)
    /\ [][C22_Step]_vars

----------------------------------------------------------------------------
(* POST /api/posts/:postId/images *)

\* The images one request brings; none is refused at once.
UploadCounts == {0, 1, 2}

UploadWith(r, who, counts) ==
    /\ CanStamp
    /\ \E u \in who, p \in PostIds, n \in counts :
        /\ Cardinality(FreeFiles) >= n
        /\ Begin(r, [IdleReq EXCEPT !.kind = "upload", !.userId = u, !.postId = p,
                        !.uploadedFiles = getUploadedFiles(n),
                        !.pc = IF n = 0 THEN "done" ELSE "findPost",
                        !.status = IF n = 0 THEN 400 ELSE 0])
        /\ files' = files \cup getUploadedFiles(n)
    /\ UNCHANGED <<tripDb, call, feedDb, backend>>

UploadStart(r) == UploadWith(r, {"u1"}, UploadCounts)

\* feedPost.findFirst({ feedPostId, isDeleted: false })
UploadFindPost(r) ==
    /\ At(r, "upload", "findPost")
    /\ IF LivePosts(req[r].postId) = {} THEN Throw(r, 404)
       ELSE /\ \E p \in LivePosts(req[r].postId) :
                 req' = [req EXCEPT ![r].tripId = p.tripId, ![r].pc = "member"]
            /\ UNCHANGED files
    /\ UNCHANGED <<users, tripDb, call, feedDb, backend>>

UploadCheckMember(r) ==
    /\ At(r, "upload", "member")
    /\ IF isTripMember(req[r].tripId, req[r].userId)
       THEN Goto(r, "count") /\ UNCHANGED files
       ELSE Throw(r, 403)
    /\ UNCHANGED <<users, tripDb, call, feedDb, backend>>

\* existingImageCount + imageUrls.length > maxPostImageCount
ImageCapExceeded(existingImageCount, n) == existingImageCount + n > maxPostImageCount

\* The first statement of the transaction: feedPostImage.count of the
\* post, a read of what is committed at that moment, and the test of it.
UploadCount(r) ==
    /\ At(r, "upload", "count")
    /\ LET existingImageCount ==
               Cardinality({i \in postImages : i.feedPostId = req[r].postId})
       IN  IF ImageCapExceeded(existingImageCount, Cardinality(req[r].uploadedFiles))
           THEN Throw(r, 400)
           ELSE /\ req' = [req EXCEPT ![r].count = existingImageCount,
                                      ![r].pc = "write"]
                /\ UNCHANGED files
    /\ UNCHANGED <<users, tripDb, call, feedDb, backend>>

\* The rest of the transaction: createMany from the count read before,
\* the write of updatedAt, and the commit.
UploadWrite(r) ==
    /\ At(r, "upload", "write")
    /\ postImages' = postImages \cup
            ImageRows(req[r].postId, req[r].uploadedFiles, req[r].count)
    /\ feedPosts' = TouchPost(feedPosts, req[r].postId)
    /\ Goto(r, "load")
    /\ UNCHANGED <<users, tripDb, call, feedComments, postVotes, postChallenges,
                   crawlDb, files, backend>>

\* getPostById and the 201 response.
UploadLoad(r) ==
    /\ At(r, "upload", "load")
    /\ IF LivePosts(req[r].postId) # {}
       THEN Reply(r, 201) /\ UNCHANGED files
       ELSE Throw(r, 500)
    /\ UNCHANGED <<users, tripDb, call, feedDb, backend>>

----------------------------------------------------------------------------
(* Uploads to a post that has five images, new posts with one image, and
   deletions of posts, two requests at a time. *)

InitialImages == 1..5

InitImages ==
    /\ users = {SignedIn(u) : u \in Users}
    /\ trips = GuardTripRows
    /\ tripMembers = {MemberRow(1, "u1", "OWNER"), MemberRow(1, "u2", "MEMBER")}
    /\ tripDays = GuardDayRows
    /\ call = [c \in Calls |-> IdleCall]
    /\ feedPosts = {PostRow(1, 1, 1, "u1", SuggestionBody)}
    /\ feedComments = {}
    /\ postVotes = {}
    /\ postChallenges = {}
    /\ crawlLocations = {}
    /\ crawlChallenges = {}
    /\ postImages = ImageRows(1, InitialImages, 0)
    /\ files = InitialImages
    /\ req = [r \in Slots |-> IdleReq]
    /\ backend = "prisma"

PostWithImage(r) == PostWithFiles(r, {"u1"}, {1}, {SuggestionBody}, {1})

NextImages ==
    \E r \in Slots :
        \/ UploadStart(r) \/ UploadFindPost(r) \/ UploadCheckMember(r)
        \/ UploadCount(r) \/ UploadWrite(r) \/ UploadLoad(r)
        \/ PostWithImage(r) \/ PostCheckMember(r) \/ PostFindDay(r)
        \/ PostCreate(r) \/ PostLoad(r)
        \/ DeletePostStart(r) \/ DeletePostFind(r) \/ DeletePostCheckOwner(r)
        \/ DeletePostUpdate(r)
        \/ ReqDone(r)

SpecImages == InitImages /\ [][NextImages]_vars

----------------------------------------------------------------------------
(* C26 *)

ImagesOf(postId) == {i \in postImages : i.feedPostId = postId}

\* C26: a post never has more than 6 image rows, whatever create-post and
\* upload-image requests have run and however they interleaved.
C26_AtMostSixImages ==
    \A p \in feedPosts : Cardinality(ImagesOf(p.feedPostId)) <= 6

----------------------------------------------------------------------------
(* C30 *)

\* C30: every committed image row refers to a file that is still there: the
\* request that created the row never unlinks its file, also when it fails
\* after its transaction has committed.
C30_ImageRowsKeepTheirFiles ==
    \A i \in postImages : i.file \in files

----------------------------------------------------------------------------
(* Deletions of a post, written by the owner of the trip or by its other
   member, with comments, votes, challenges and uploads on it. *)

InitDeleted ==
    /\ users = {SignedIn(u) : u \in Users}
    /\ trips = GuardTripRows
    /\ tripMembers = {MemberRow(1, "u1", "OWNER"), MemberRow(1, "u2", "MEMBER")}
    /\ tripDays = GuardDayRows
    /\ call = [c \in Calls |-> IdleCall]
    /\ \E author \in Users :
            feedPosts = {PostRow(1, 1, 1, author, SuggestionBody)}
    /\ feedComments = {}
    /\ postVotes = {}
    /\ postChallenges = {}
    /\ crawlLocations = {}
    /\ crawlChallenges = {}
    /\ postImages = {}
    /\ files = {}
    /\ req = [r \in Slots |-> IdleReq]
    /\ backend = "prisma"

CommentByMember(r) == CommentBy(r, {"u2"})
VoteByMember(r) == VoteBy(r, {"u2"})
UploadOne(r) == UploadWith(r, {"u1"}, {1})
ChallengeByMember(r) == ChallengeBy(r, {"u2"})

NextDeleted ==
    \E r \in Slots :
        \/ DeletePostStart(r) \/ DeletePostFind(r) \/ DeletePostCheckOwner(r)
        \/ DeletePostUpdate(r)
        \/ CommentByMember(r) \/ CommentFindPost(r) \/ CommentCheckMember(r)
        \/ CommentCreate(r)
        \/ VoteByMember(r) \/ VoteFindPost(r) \/ VoteCheckMember(r)
        \/ VoteUpsert(r) \/ VoteCount(r)
        \/ ChallengeByMember(r) \/ ChallengeFindPost(r) \/ ChallengeCheckMember(r)
        \/ ChallengeCreate(r) \/ ChallengeLoad(r)
        \/ UploadOne(r) \/ UploadFindPost(r) \/ UploadCheckMember(r)
        \/ UploadCount(r) \/ UploadWrite(r) \/ UploadLoad(r)
        \/ ReqDone(r)

SpecDeleted == InitDeleted /\ [][NextDeleted]_vars

----------------------------------------------------------------------------
(* C25 *)

SoftDeleted(postId) == \E p \in feedPosts : p.feedPostId = postId /\ p.isDeleted

Undeleted(postId) == \E p \in feedPosts : p.feedPostId = postId /\ ~p.isDeleted

\* The caller wrote the post, or holds an active OWNER membership of its trip.
AuthorOrOwner(postId, userId) ==
    \E p \in feedPosts :
        /\ p.feedPostId = postId
        /\ \/ p.authorUserId = userId
           \/ \E m \in tripMembers : /\ m.tripId = p.tripId /\ m.userId = userId
                                     /\ m.memberRole = "OWNER" /\ m.isActive

ActsOnPost == {"comment", "vote", "challenge", "upload", "deletePost"}

FeedTablesUnchanged ==
    UNCHANGED <<feedPosts, feedComments, postVotes, postChallenges, crawlLocations,
                crawlChallenges, postImages>>

\* A post becomes deleted only in the step of a delete request of its author
\* or of an owner of its trip, answered 200.
OnlyAuthorOrOwnerDeletes ==
    \A p \in PostIds :
        (Undeleted(p) /\ SoftDeleted(p)') =>
            \E r \in Slots : /\ Steps(r)
                             /\ req[r].kind = "deletePost" /\ req[r].postId = p
                             /\ AuthorOrOwner(p, req[r].userId)
                             /\ req'[r].pc = "done" /\ req'[r].status = 200

\* The delete request of anyone else ends without a write, with 403 while
\* the post is there.
OthersAreRefused ==
    \A r \in Slots :
        (/\ Steps(r) /\ req[r].kind = "deletePost"
         /\ req[r].pc \notin {"idle", "done"} /\ req'[r].pc = "done"
         /\ \E p \in feedPosts : p.feedPostId = req[r].postId
         /\ ~AuthorOrOwner(req[r].postId, req[r].userId)) =>
            /\ FeedTablesUnchanged
            /\ req'[r].status \in {403, 404}
            /\ Undeleted(req[r].postId) => req'[r].status = 403

\* A request arriving for a deleted post writes no row and is either refused
\* for its own input (400) or goes to the lookup of the post; the lookup
\* answers 404, writes no row and leaves no file of the request behind.
DeletedPostIsNotFound ==
    \A r \in Slots :
        /\ (/\ Steps(r) /\ req[r].pc = "idle" /\ req'[r].kind \in ActsOnPost
            /\ SoftDeleted(req'[r].postId)) =>
                /\ FeedTablesUnchanged
                /\ \/ req'[r].pc = "findPost"
                   \/ req'[r].pc = "done" /\ req'[r].status = 400 /\ files' = files
        /\ (/\ Steps(r) /\ req[r].pc = "findPost" /\ req[r].kind \in ActsOnPost
            /\ SoftDeleted(req[r].postId)) =>
                /\ FeedTablesUnchanged
                /\ req'[r].pc = "done" /\ req'[r].status = 404
                /\ files' = files \ req[r].uploadedFiles

C25_Step == OnlyAuthorOrOwnerDeletes /\ OthersAreRefused /\ DeletedPostIsNotFound

\* C25: a post is soft-deleted only by its author or by an active OWNER of
\* its trip, any other caller gets 403 and the post stays undeleted; requests
\* that come for a soft-deleted post afterwards (comment, vote, challenge,
\* image, delete) are answered not-found and change nothing.
C25_OnlyAuthorOrOwnerDeletes == [][C25_Step]_vars

\* The member who is neither author nor owner was answered 403, the post was
\* deleted afterwards, and a later request on it was answered 404.
C25_Witness ==
    /\ SoftDeleted(1)
    /\ \E r1, r2 \in Slots :
        /\ req[r1].kind = "deletePost" /\ req[r1].pc = "done" /\ req[r1].status = 403
        /\ req[r1].postId = 1
        /\ req[r2].kind \in ActsOnPost \ {"deletePost"} /\ req[r2].pc = "done"
        /\ req[r2].status = 404 /\ req[r2].postId = 1

----------------------------------------------------------------------------
(* Trip views while posts are deleted, comments are written and the trip
   is deleted. The API has no request that soft-deletes a comment: the
   comment that is soft-deleted is so from the start. *)

DeletedComment ==
    [feedCommentId |-> 1, feedPostId |-> 2, authorUserId |-> "u2",
     commentBody |-> Str("hi", FALSE, 2), isDeleted |-> TRUE]

InitView ==
    /\ users = {SignedIn(u) : u \in Users}
    /\ trips = GuardTripRows
    /\ tripMembers = {MemberRow(1, "u1", "OWNER"), MemberRow(1, "u2", "MEMBER")}
    /\ tripDays = GuardDayRows
    /\ call = [c \in Calls |-> IdleCall]
    /\ feedPosts = {PostRow(1, 1, 1, "u1", SuggestionBody),
                    PostRow(2, 1, 1, "u1", SuggestionBody)}
    /\ feedComments \in {{}, {DeletedComment}}
    /\ postVotes = {}
    /\ postChallenges = {}
    /\ crawlLocations = {}
    /\ crawlChallenges = {}
    /\ postImages = {}
    /\ files = {}
    /\ req = [r \in Slots |-> IdleReq]
    /\ backend = "prisma"

NextView ==
    \E r \in Slots :
        \/ GetTripStart(r) \/ GetTripCheckMember(r) \/ GetTripLoad(r)
        \/ DeletePostStart(r) \/ DeletePostFind(r) \/ DeletePostCheckOwner(r)
        \/ DeletePostUpdate(r)
        \/ DeleteTripStart(r) \/ DeleteTripFind(r) \/ DeleteTripCheckOwner(r)
        \/ DeleteTripArchive(r) \/ DeleteTripDeactivate(r)
        \/ CommentByMember(r) \/ CommentFindPost(r) \/ CommentCheckMember(r)
        \/ CommentCreate(r)
        \/ ReqDone(r)

SpecView == InitView /\ [][NextView]_vars

----------------------------------------------------------------------------
(* C21 *)

\* What a view must not show: the soft-deleted posts, and the comments
\* that are soft-deleted or under a soft-deleted post.
HiddenPosts == {p.feedPostId : p \in {q \in feedPosts : q.isDeleted}}

HiddenComments ==
    {c.feedCommentId : c \in {d \in feedComments :
                                d.isDeleted \/ d.feedPostId \in HiddenPosts}}

C21_Step ==
    \A r \in Slots :
        (Steps(r) /\ req[r].kind = "getTrip" /\ req[r].pc = "load") =>
            /\ Archived(req[r].tripId) =>
                    req'[r].view = Null /\ req'[r].status = 404
            /\ req'[r].view # Null =>
                    /\ req'[r].view[1].posts \cap HiddenPosts = {}
                    /\ req'[r].view[1].comments \cap HiddenComments = {}

\* C21: a trip view never contains a post or a comment that was soft-deleted
\* before it was built, whoever asks, and there is no view of an archived trip.
C21_ViewReflectsDeletes == [][C21_Step]_vars

\* A view built after post 1 was deleted: it shows post 2 and neither post 1
\* nor the soft-deleted comment under post 2.
C21_Witness ==
    /\ DeletedComment \in feedComments
    /\ \E r \in Slots :
        /\ req[r].kind = "getTrip" /\ req[r].pc = "done" /\ req[r].view # Null
        /\ req[r].view[1].posts = {2}
        /\ req[r].view[1].comments = {}

----------------------------------------------------------------------------
(* Posts and crawl stops with coordinates *)

Latitudes == {NoCoordText, BadCoordText, CoordText(-90), CoordText(91)}
Longitudes == {NoCoordText, CoordText(180), CoordText(-181)}

PinnedBodies ==
    {WithCoordinates(SuggestionBody, lat, lon) : lat \in Latitudes, lon \in Longitudes}

PinnedCrawlBodies ==
    {WithStopCoordinates(CrawlBody, lat, lon) : lat \in Latitudes, lon \in Longitudes}

PostPinned(r) == PostWith(r, {"u1"}, {1}, PinnedBodies \cup PinnedCrawlBodies)

NextCoords ==
    \E r \in Slots :
        \/ PostPinned(r) \/ PostCheckMember(r) \/ PostFindDay(r)
        \/ PostCreate(r) \/ PostLoad(r) \/ ReqDone(r)

SpecCoords == InitPosts /\ [][NextCoords]_vars

----------------------------------------------------------------------------
(* C23 *)

ValidPair(latitude, longitude) ==
    \/ latitude = Null /\ longitude = Null
    \/ /\ latitude # Null /\ longitude # Null
       /\ latitude[1] \in -90 .. 90
       /\ longitude[1] \in -180 .. 180

\* C23: every persisted post and every persisted crawl stop has both a
\* latitude in [-90, 90] and a longitude in [-180, 180], or neither.
C23_CoordinatesAreValidPairs ==
    /\ \A p \in feedPosts : ValidPair(p.latitude, p.longitude)
    /\ \A s \in crawlLocations : ValidPair(s.latitude, s.longitude)

\* What does hold: a persisted coordinate is within its range.
CoordinatesInRange ==
    /\ \A p \in feedPosts :
        /\ p.latitude # Null => p.latitude[1] \in -90 .. 90
        /\ p.longitude # Null => p.longitude[1] \in -180 .. 180
    /\ \A s \in crawlLocations :
        /\ s.latitude # Null => s.latitude[1] \in -90 .. 90
        /\ s.longitude # Null => s.longitude[1] \in -180 .. 180

====
